---- MODULE Spec2Model ----
(***************************************************************************)
(* Verification model of the capability attestation service.               *)
(*                                                                         *)
(*   SpecLease     tokens.py: capability leases, threads interleaving at   *)
(*                 lock acquisitions, lock bodies and clock reads          *)
(*   SpecLeaseSeq  the same operations called by a single thread           *)
(*   SpecLeaseForge  a single thread handing lease_valid made-up leases    *)
(*   SpecAuthy     authy_v4_open: the /issue, /verify and /revoke handlers *)
(*                 over the revocation table                               *)
(*   SpecPassport  ismx/passport.py: issue_passport and verify_passport    *)
(*   SpecPassportForge  verify_passport on passports altered outside the   *)
(*                 signature or signed with another key                    *)
(*   SpecJwks      auth0_utils.py: threads calling _jwks and                *)
(*                 clear_jwks_cache at once                                *)
(*   SpecJwt       auth0_utils.py: one caller of verify_jwt, _jwks and     *)
(*                 clear_jwks_cache                                        *)
(*   SpecKeys      ensure_keypair and _load_keys over the key file and the *)
(*                 environment                                             *)
(*   SpecPolicy    ismx.policy: quorum_3_of_5                              *)
(*   SpecAudit     ismx.audit: audit_receipt and verify_receipt            *)
(*   SpecDb        examples/mcp_integration.py: /db/query and              *)
(*                 /db/sensitive_query                                     *)
(*   SpecCompact   authy_v4_open/crypto.py: verify_compact called alone    *)
(*   SpecRemote    authy_bridge/authy_client.py: verify_remote over the    *)
(*                 outcomes of the network                                 *)
(*   SpecBridge    authy_bridge/example_db_bridge.py: run_query_with_authy *)
(*   SpecScopes    auth0_utils.py: require_scopes                          *)
(*   SpecServer    server/: the middleware stack and the exception         *)
(*                 handlers serving requests                               *)
(*                                                                         *)
(* Every specification shares the wall clock (time.time() truncated to     *)
(* whole seconds by int(); JwksTick seconds a tick for the JWKS cache).    *)
(***************************************************************************)
EXTENDS Integers, Sequences, FiniteSets, TLC

\* ------------------------------------------------------------------ bounds
MaxClock == 2
MaxCalls == 3
MaxTokens == 1
MaxIssues == 1
JwksTick == 150
MaxLen == 3
MaxApprovers == 4
MaxWords == 2

\* ------------------------------------------------------------ lease domain
Threads == {"t1", "t2"}
LeaseIds == {"L1", "L2"}
\* lease.get('lease_id') of a dictionary without the key: falsy
NoId == ""
Scopes == {"tool:x", "tool:y"}
LeaseTtls == {0, 1}
\* exp values a caller may carry in a lease dictionary
CarriedExps == 0..(MaxClock + 1)

VARIABLES
    clock,          \* int(time.time())
    usedLeases,     \* _USED_LEASES
    activeLeases,   \* _ACTIVE_LEASES: lease_id -> stored lease
    leaseLock,      \* _LEASE_LOCK: the thread holding it, or NoThread
    storageLock,    \* _STORAGE_LOCK: the thread holding it, or NoThread
    thr,            \* per thread: the call it is in and its locals
    last,           \* the call that returned most recently, with its result
    calls,          \* number of lease_valid, revoke_lease and cleanup calls started so far
    wallet,         \* the lease dictionaries issue_capability_lease has returned
    world,          \* fixed per specification: the ids secrets.token_hex can return
                    \* (ids), the scopes leases are issued for (scopes) and whether
                    \* callers hand in made-up dictionaries (forging)
    registered,     \* history: lease_id -> [scope, exp] given by issue_capability_lease
    consumedOk,     \* history: lease_id -> number of consume=True calls that returned True
    revokedRemoved, \* history: lease ids revoke_lease deleted from the active store
    revokeReturned, \* history: lease ids a revoke_lease call has returned for
    passportsDb,    \* authy table passports: jti -> row
    revocations,    \* authy table revocations: jti -> row
    resp,           \* the response of the authy request handled most recently
    revokeDone,     \* history: the jtis a /revoke has completed for
    passport,       \* the passport issue_passport returned most recently
    pending,        \* the issue_passport call in progress
    issues,         \* number of issue_passport calls so far
    vcall,          \* the verify_passport call that returned most recently
    issuedFor,      \* history: the arguments and clock of the last issue_passport
    jwksCache,      \* JWKS_CACHE: keys and ts
    jwksLock,       \* JWKS_LOCK: the thread holding it, or NoThread
    jthr,           \* per thread: the _jwks, verify_jwt or clear_jwks_cache call it is in
    jlast,          \* the _jwks or verify_jwt call that ended most recently
    jprev,          \* history: cause and message of the verify_jwt call before that
    jcalls,         \* number of _jwks, verify_jwt and clear_jwks_cache calls so far
    keyEnv,         \* the environment: ENV, ED25519_SK_B64, ED25519_VK_B64
    keyFile,        \* the file at KEY_PATH
    keyResult,      \* the key loading call that ended most recently
    keyCalls,       \* number of key loading calls so far
    answer,         \* the call of a stateless operation that returned most recently:
                    \* its arguments and what it returned
    answers         \* number of such calls so far

leaseVars == <<usedLeases, activeLeases, leaseLock, storageLock, thr, last, calls, wallet,
               world,
               registered, consumedOk, revokedRemoved, revokeReturned>>

authyVars == <<passportsDb, revocations, resp, revokeDone>>

passportVars == <<passport, pending, issues, vcall, issuedFor>>

jwksVars == <<jwksCache, jwksLock, jthr, jlast, jprev, jcalls>>

keyVars == <<keyEnv, keyFile, keyResult, keyCalls>>

callVars == <<answer, answers>>

vars == <<clock, leaseVars, authyVars, passportVars, jwksVars, keyVars, callVars>>

NoThread == "none"

NoLease == [lease_id |-> NoId, scope |-> "", exp |-> 0]

\* the dictionaries a caller can make up: any id, scope and exp, or no id
CarriedLeases == [lease_id : LeaseIds, scope : Scopes, exp : CarriedExps] \cup {NoLease}

IdleThread ==
    [pc |-> "idle", thread |-> NoThread, op |-> "none", lease |-> NoLease, needed |-> "",
     consume |-> FALSE, now |-> 0, result |-> FALSE, ret |-> "", count |-> 0,
     afterConsumed |-> FALSE, afterRemoval |-> FALSE, unusedAtStart |-> FALSE,
     retry |-> FALSE, registeredCopy |-> FALSE, wrongScope |-> FALSE,
     afterRevoke |-> FALSE, found |-> FALSE, resweep |-> FALSE]

OffThread == [IdleThread EXCEPT !.pc = "off"]

NewCall(t, op) == [IdleThread EXCEPT !.thread = t, !.op = op]

\* A thread can start a call when it is in no call
CanStart(t) == thr[t].pc = "idle" /\ calls < MaxCalls

\* what is kept of a call once it has returned: who called what on which lease id,
\* the value returned, the return statement taken and the history flags
Returned(me) ==
    [thread |-> me.thread, op |-> me.op, lease_id |-> me.lease.lease_id,
     consume |-> me.consume, result |-> me.result, ret |-> me.ret, count |-> me.count,
     afterConsumed |-> me.afterConsumed, afterRemoval |-> me.afterRemoval,
     unusedAtStart |-> me.unusedAtStart, retry |-> me.retry,
     registeredCopy |-> me.registeredCopy, wrongScope |-> me.wrongScope,
     now |-> me.now, afterRevoke |-> me.afterRevoke, found |-> me.found,
     resweep |-> me.resweep]

\* the call of thread t returns: it becomes the last returned call
Return(t, me) ==
    /\ thr' = [thr EXCEPT ![t] = IdleThread]
    /\ last' = Returned(me)

\* the clock advances between any two steps
Tick ==
    /\ clock < MaxClock
    /\ clock' = clock + 1
    /\ UNCHANGED <<leaseVars, authyVars, passportVars, jwksVars, keyVars, callVars>>

\* ------------------------------------------------ issue_capability_lease
\* ids secrets.token_hex(16) has not produced yet; a 128-bit random id is none a
\* caller handed to revoke_lease before
FreshIds ==
    world.ids \ (DOMAIN registered \cup revokeReturned \cup
                {thr[u].lease.lease_id :
                    u \in {v \in Threads : thr[v].op \in {"issue", "revoke"}}})

StoredLease(lease) == [scope |-> lease.scope, exp |-> lease.exp, used |-> FALSE]

\* lease_id = secrets.token_hex(16); exp = int(time.time()) + ttl_s. The stored
\* issued_at (a second clock read) is read by no operation and is left out.
\* Issuances are bounded by the ids there are to draw.
IssueBegin(t, scope, ttl_s) ==
    /\ thr[t].pc = "idle"
    /\ \E id \in FreshIds :
          thr' = [thr EXCEPT ![t] = [NewCall(t, "issue") EXCEPT
                     !.pc = "is_lock", !.now = clock,
                     !.lease = [lease_id |-> id, scope |-> scope, exp |-> clock + ttl_s]]]
    /\ UNCHANGED <<authyVars, passportVars, jwksVars, keyVars, callVars,
                   clock, wallet, world, usedLeases, activeLeases, leaseLock, storageLock, last,
                   calls, registered, consumedOk, revokedRemoved, revokeReturned>>

IssueLock(t) ==
    /\ thr[t].pc = "is_lock"
    /\ storageLock = NoThread
    /\ storageLock' = t
    /\ thr' = [thr EXCEPT ![t].pc = "is_store"]
    /\ UNCHANGED <<authyVars, passportVars, jwksVars, keyVars, callVars,
                   clock, wallet, world, usedLeases, activeLeases, leaseLock, last, calls,
                   registered, consumedOk, revokedRemoved, revokeReturned>>

\* _ACTIVE_LEASES[lease_id] = lease; the with block ends; return lease: the caller
\* now holds the dictionary
IssueStore(t) ==
    /\ thr[t].pc = "is_store"
    /\ storageLock = t
    /\ LET lease == thr[t].lease
           ids(m) == DOMAIN m \cup {lease.lease_id}
       IN  /\ activeLeases' = [id \in ids(activeLeases) |->
                                 IF id = lease.lease_id THEN StoredLease(lease)
                                 ELSE activeLeases[id]]
           /\ registered' = [id \in ids(registered) |->
                                 IF id = lease.lease_id
                                 THEN [scope |-> lease.scope, exp |-> lease.exp,
                                       issued |-> thr[t].now]
                                 ELSE registered[id]]
    /\ storageLock' = NoThread
    /\ wallet' = wallet \cup {thr[t].lease}
    /\ Return(t, [thr[t] EXCEPT !.ret = "issued"])
    /\ UNCHANGED <<authyVars, passportVars, jwksVars, keyVars, callVars,
                   clock, world, usedLeases, leaseLock, calls, consumedOk, revokedRemoved, revokeReturned>>

\* ------------------------------------------------------------ lease_valid
\* not lease_id
MissingId(lease) == lease.lease_id = NoId

\* lease_id in _USED_LEASES, the first check
FirstCheckUsed_Never(lease_id, used) == FALSE

FirstCheckUsed(lease_id, used) == lease_id \in used

\* lease_id in _USED_LEASES, the check repeated with the lock held before the add
DoubleCheckUsed_Never(lease_id, used) == FALSE

DoubleCheckUsed(lease_id, used) == lease_id \in used

\* int(time.time()) > int(lease.get('exp', 0))
LeaseExpired(now, lease) == now > lease.exp

\* lease.get('scope') != needed_scope
ScopeMismatch_Never(lease, needed_scope) == FALSE

ScopeMismatch(lease, needed_scope) == lease.scope # needed_scope

\* The record of a lease_valid call. The history flags say what was true of the
\* lease when the call began: a consuming call had returned True for it, revoke_lease
\* had deleted it, a revoke_lease call on it had returned, it was absent from the
\* used-set, the call that returned just
\* before was this caller's rejection of the same lease for a wrong scope, the
\* dictionary handed in is the one issue_capability_lease registered under its id,
\* and the scope asked for differs from the scope the dictionary carries.
ValidCall(t, lease, needed_scope, consume) ==
    [NewCall(t, "valid") EXCEPT
       !.lease = lease, !.needed = needed_scope, !.consume = consume,
       !.afterConsumed = (lease.lease_id \in DOMAIN consumedOk),
       !.afterRemoval = (lease.lease_id \in revokedRemoved),
       !.afterRevoke = (lease.lease_id \in revokeReturned),
       !.unusedAtStart = (lease.lease_id \notin usedLeases),
       !.retry = (/\ last.op = "valid"
                  /\ last.thread = t
                  /\ last.lease_id = lease.lease_id
                  /\ last.ret = "scope"
                  /\ last.unusedAtStart),
       !.registeredCopy = (/\ lease.lease_id \in DOMAIN registered
                           /\ registered[lease.lease_id].scope = lease.scope
                           /\ registered[lease.lease_id].exp = lease.exp),
       !.wrongScope = (needed_scope # lease.scope)]

\* lease_id = lease.get('lease_id'); if not lease_id: return False
ValidNoId(t, lease, needed_scope, consume) ==
    /\ CanStart(t)
    /\ MissingId(lease)
    /\ Return(t, [ValidCall(t, lease, needed_scope, consume) EXCEPT
                    !.result = FALSE, !.ret = "noid"])
    /\ calls' = calls + 1
    /\ UNCHANGED <<authyVars, passportVars, jwksVars, keyVars, callVars,
                   clock, wallet, world, usedLeases, activeLeases, leaseLock, storageLock,
                   registered, consumedOk, revokedRemoved, revokeReturned>>

\* The call reaches its first statement on shared state: with _LEASE_LOCK
ValidBegin(t, lease, needed_scope, consume) ==
    /\ CanStart(t)
    /\ ~MissingId(lease)
    /\ leaseLock = NoThread
    /\ leaseLock' = t
    /\ thr' = [thr EXCEPT ![t] = [ValidCall(t, lease, needed_scope, consume) EXCEPT
                                    !.pc = "lv_check1"]]
    /\ calls' = calls + 1
    /\ UNCHANGED <<authyVars, passportVars, jwksVars, keyVars, callVars,
                   clock, wallet, world, usedLeases, activeLeases, storageLock, last,
                   registered, consumedOk, revokedRemoved, revokeReturned>>

\* if lease_id in _USED_LEASES: return False; the with block ends
ValidCheck1(t) ==
    /\ thr[t].pc = "lv_check1"
    /\ leaseLock = t
    /\ leaseLock' = NoThread
    /\ IF FirstCheckUsed(thr[t].lease.lease_id, usedLeases)
       THEN Return(t, [thr[t] EXCEPT !.result = FALSE, !.ret = "used"])
       ELSE thr' = [thr EXCEPT ![t].pc = "lv_time"] /\ UNCHANGED last
    /\ UNCHANGED <<authyVars, passportVars, jwksVars, keyVars, callVars,
                   clock, wallet, world, usedLeases, activeLeases, storageLock, calls,
                   registered, consumedOk, revokedRemoved, revokeReturned>>

\* if consume:
Consumes_Always(me) == TRUE

Consumes(me) == me.consume

\* the locals of a consuming call past its scope check: it reads lease_id alone
PastChecks(me) ==
    [me EXCEPT !.pc = "lv_lock2", !.needed = "",
               !.lease = [NoLease EXCEPT !.lease_id = me.lease.lease_id]]

\* the clock read of the expiry check, then the scope check on the carried copy
ValidTimeScope(t) ==
    /\ thr[t].pc = "lv_time"
    /\ LET me == thr[t]
       IN  IF LeaseExpired(clock, me.lease)
           THEN Return(t, [me EXCEPT !.result = FALSE, !.ret = "expired"])
           ELSE IF ScopeMismatch(me.lease, me.needed)
           THEN Return(t, [me EXCEPT !.result = FALSE, !.ret = "scope"])
           ELSE IF Consumes(me)
           THEN thr' = [thr EXCEPT ![t] = PastChecks(me)] /\ UNCHANGED last
           ELSE Return(t, [me EXCEPT !.result = TRUE, !.ret = "ok"])
    /\ UNCHANGED <<authyVars, passportVars, jwksVars, keyVars, callVars,
                   clock, wallet, world, usedLeases, activeLeases, leaseLock, storageLock, calls,
                   registered, consumedOk, revokedRemoved, revokeReturned>>

ValidLock2(t) ==
    /\ thr[t].pc = "lv_lock2"
    /\ leaseLock = NoThread
    /\ leaseLock' = t
    /\ thr' = [thr EXCEPT ![t].pc = "lv_check2"]
    /\ UNCHANGED <<authyVars, passportVars, jwksVars, keyVars, callVars,
                   clock, wallet, world, usedLeases, activeLeases, storageLock, last, calls,
                   registered, consumedOk, revokedRemoved, revokeReturned>>

\* with _LEASE_LOCK: the double check, then _USED_LEASES.add(lease_id)
ValidCheck2(t) ==
    /\ thr[t].pc = "lv_check2"
    /\ leaseLock = t
    /\ leaseLock' = NoThread
    /\ IF DoubleCheckUsed(thr[t].lease.lease_id, usedLeases)
       THEN /\ Return(t, [thr[t] EXCEPT !.result = FALSE, !.ret = "used2"])
            /\ UNCHANGED usedLeases
       ELSE /\ usedLeases' = usedLeases \cup {thr[t].lease.lease_id}
            /\ thr' = [thr EXCEPT ![t].pc = "lv_lock3"]
            /\ UNCHANGED last
    /\ UNCHANGED <<authyVars, passportVars, jwksVars, keyVars, callVars,
                   clock, wallet, world, activeLeases, storageLock, calls,
                   registered, consumedOk, revokedRemoved, revokeReturned>>

ValidLock3(t) ==
    /\ thr[t].pc = "lv_lock3"
    /\ storageLock = NoThread
    /\ storageLock' = t
    /\ thr' = [thr EXCEPT ![t].pc = "lv_mark"]
    /\ UNCHANGED <<authyVars, passportVars, jwksVars, keyVars, callVars,
                   clock, wallet, world, usedLeases, activeLeases, leaseLock, last, calls,
                   registered, consumedOk, revokedRemoved, revokeReturned>>

\* with _STORAGE_LOCK: _ACTIVE_LEASES[lease_id]['used'] = True if stored; return True
ValidMark(t) ==
    /\ thr[t].pc = "lv_mark"
    /\ storageLock = t
    /\ storageLock' = NoThread
    /\ LET id == thr[t].lease.lease_id
       IN  /\ activeLeases' = IF id \in DOMAIN activeLeases
                              THEN [activeLeases EXCEPT ![id].used = TRUE]
                              ELSE activeLeases
           /\ consumedOk' = [i \in DOMAIN consumedOk \cup {id} |->
                               IF i = id
                               THEN (IF id \in DOMAIN consumedOk THEN consumedOk[id] ELSE 0) + 1
                               ELSE consumedOk[i]]
    /\ Return(t, [thr[t] EXCEPT !.result = TRUE, !.ret = "ok"])
    /\ UNCHANGED <<authyVars, passportVars, jwksVars, keyVars, callVars,
                   clock, wallet, world, usedLeases, leaseLock, calls, registered, revokedRemoved, revokeReturned>>

\* ------------------------------------------------------------ revoke_lease
\* The call reaches its first statement: with _STORAGE_LOCK. No caller knows the id
\* an issue_capability_lease call has drawn and not yet returned.
RevokeBegin(t, lease_id) ==
    /\ CanStart(t)
    /\ \A u \in Threads : thr[u].op = "issue" => thr[u].lease.lease_id # lease_id
    /\ storageLock = NoThread
    /\ storageLock' = t
    /\ thr' = [thr EXCEPT ![t] = [NewCall(t, "revoke") EXCEPT
                  !.pc = "rv_delete", !.lease = [NoLease EXCEPT !.lease_id = lease_id]]]
    /\ calls' = calls + 1
    /\ UNCHANGED <<authyVars, passportVars, jwksVars, keyVars, callVars,
                   clock, wallet, world, usedLeases, activeLeases, leaseLock, last,
                   registered, consumedOk, revokedRemoved, revokeReturned>>

\* if lease_id in _ACTIVE_LEASES: del _ACTIVE_LEASES[lease_id]; the with block ends
RevokeDelete(t) ==
    /\ thr[t].pc = "rv_delete"
    /\ storageLock = t
    /\ storageLock' = NoThread
    /\ LET id == thr[t].lease.lease_id
       IN  IF id \in DOMAIN activeLeases
           THEN /\ activeLeases' = [i \in DOMAIN activeLeases \ {id} |-> activeLeases[i]]
                /\ revokedRemoved' = revokedRemoved \cup {id}
           ELSE UNCHANGED <<activeLeases, revokedRemoved>>
    /\ thr' = [thr EXCEPT ![t].pc = "rv_lock2",
                           ![t].found = (thr[t].lease.lease_id \in DOMAIN activeLeases)]
    /\ UNCHANGED <<authyVars, passportVars, jwksVars, keyVars, callVars,
                   clock, wallet, world, usedLeases, leaseLock, last, calls, registered, consumedOk,
                   revokeReturned>>

RevokeLock2(t) ==
    /\ thr[t].pc = "rv_lock2"
    /\ leaseLock = NoThread
    /\ leaseLock' = t
    /\ thr' = [thr EXCEPT ![t].pc = "rv_add"]
    /\ UNCHANGED <<authyVars, passportVars, jwksVars, keyVars, callVars,
                   clock, wallet, world, usedLeases, activeLeases, storageLock, last, calls,
                   registered, consumedOk, revokedRemoved, revokeReturned>>

\* with _LEASE_LOCK: _USED_LEASES.add(lease_id); return True
RevokeAdd(t) ==
    /\ thr[t].pc = "rv_add"
    /\ leaseLock = t
    /\ leaseLock' = NoThread
    /\ usedLeases' = usedLeases \cup {thr[t].lease.lease_id}
    /\ revokeReturned' = revokeReturned \cup {thr[t].lease.lease_id}
    /\ Return(t, [thr[t] EXCEPT !.result = TRUE, !.ret = "revoked"])
    /\ UNCHANGED <<authyVars, passportVars, jwksVars, keyVars, callVars,
                   clock, wallet, world, activeLeases, storageLock, calls,
                   registered, consumedOk, revokedRemoved>>

\* -------------------------------------------------- cleanup_expired_leases
\* now = int(time.time()); count = 0
CleanupBegin(t) ==
    /\ CanStart(t)
    /\ thr' = [thr EXCEPT ![t] = [NewCall(t, "cleanup") EXCEPT
                  !.pc = "cl_lock", !.now = clock,
                  !.resweep = (last.op = "cleanup" /\ last.now = clock)]]
    /\ calls' = calls + 1
    /\ UNCHANGED <<authyVars, passportVars, jwksVars, keyVars, callVars,
                   clock, wallet, world, usedLeases, activeLeases, leaseLock, storageLock, last,
                   registered, consumedOk, revokedRemoved, revokeReturned>>

CleanupLock(t) ==
    /\ thr[t].pc = "cl_lock"
    /\ storageLock = NoThread
    /\ storageLock' = t
    /\ thr' = [thr EXCEPT ![t].pc = "cl_sweep"]
    /\ UNCHANGED <<authyVars, passportVars, jwksVars, keyVars, callVars,
                   clock, wallet, world, usedLeases, activeLeases, leaseLock, last, calls,
                   registered, consumedOk, revokedRemoved, revokeReturned>>

\* lease.get('exp', 0) < now
SweepExpired_Never(stored, now) == FALSE

SweepExpired(stored, now) == stored.exp < now

\* with _STORAGE_LOCK: delete every expired entry, counting; return count
CleanupSweep(t) ==
    /\ thr[t].pc = "cl_sweep"
    /\ storageLock = t
    /\ storageLock' = NoThread
    /\ LET expired_ids == {id \in DOMAIN activeLeases :
                              SweepExpired(activeLeases[id], thr[t].now)}
       IN  /\ activeLeases' = [i \in DOMAIN activeLeases \ expired_ids |-> activeLeases[i]]
           /\ Return(t, [thr[t] EXCEPT !.ret = "swept",
                                       !.count = Cardinality(expired_ids)])
    /\ UNCHANGED <<authyVars, passportVars, jwksVars, keyVars, callVars,
                   clock, wallet, world, usedLeases, leaseLock, calls,
                   registered, consumedOk, revokedRemoved, revokeReturned>>

\* ------------------------------------------------------------ authy domain
TTL_DEFAULT == 60
KID == 1
\* the values uuid.uuid4().hex returns, numbered in the order of the /issue calls
Jtis == 1..MaxTokens
\* req.jti when the request carries none (None or ""): falsy
NoJti == 0
\* req.ttl of an /issue request that gives one
AuthyTtls == {-1, 0, 1}
NoTtl == [given |-> FALSE, ttl |-> 0]
IssueTtls == {NoTtl} \cup [given : {TRUE}, ttl : AuthyTtls]
\* the external JWT an /issue request carries in its Authorization header: none, one
\* that verify_jwt rejects, one that verify_jwt accepts with the scope needed
Bearers == {"none", "invalid", "valid"}

\* the key pair ensure_keypair loads, and a key pair of somebody else
ServiceKey == "authy"
AttackerKey == "attacker"

\* Ed25519: a signature is the pair of the signing key and the signed bytes, and it
\* verifies under the verify key of that key pair for those bytes only
Sign(key, msg) == [key |-> key, msg |-> msg]

Verifies(vk, msg, sig) == sig.key = vk /\ sig.msg = msg

\* a base64url segment: the bytes it decodes to and the text that encodes them.
\* "canon" is the text urlsafe_b64encode(...).rstrip("=") writes; "loose" is another
\* text decoding to the same bytes (the unused low bits of the last character set)
Segment(val, enc) == [val |-> val, enc |-> enc]

\* b64url_decode pads and calls base64.urlsafe_b64decode, which ignores the unused
\* bits: both texts give the bytes
b64url_decode(seg) == seg.val

AuthyHeader == [alg |-> "Ed25519", kid |-> KID, typ |-> "ISMJ"]

\* the payload fields the handlers read
AuthyPayload(jti, iat, exp) == [iat |-> iat, exp |-> exp, jti |-> jti, kid |-> KID]

\* the text signed: parts[0] + "." + parts[1]
SigningInput(h, p) == <<h, p>>

sign_compact(header, payload, sk) ==
    LET h == Segment(header, "canon")
        p == Segment(payload, "canon")
    IN  [parts |-> 3, h |-> h, p |-> p,
         s |-> Segment(Sign(sk, SigningInput(h, p)), "canon")]

\* bytes that json.loads rejects
NotJson == [json |-> FALSE]

\* the exception the try block of verify_compact raises, "" when it returns: for a
\* segment count other than 3, a segment text that base64 cannot decode ("not_base64":
\* one character more than a multiple of four), a signature that does not verify,
\* a header or payload that is no JSON
CompactRaises(token, vk) ==
    IF token.parts # 3 THEN "ValueError"
    ELSE IF "not_base64" \in {token.h.enc, token.p.enc, token.s.enc} THEN "binascii.Error"
    ELSE IF ~Verifies(vk, SigningInput(token.h, token.p), b64url_decode(token.s))
    THEN "BadSignatureError"
    ELSE IF NotJson \in {b64url_decode(token.h), b64url_decode(token.p)}
    THEN "JSONDecodeError"
    ELSE ""

\* except (BadSignatureError, ValueError, json.JSONDecodeError): binascii.Error and
\* json.JSONDecodeError are subclasses of ValueError
CompactCaught(exc) ==
    exc \in {"BadSignatureError", "ValueError", "JSONDecodeError", "binascii.Error"}

\* raises ValueError("verification failed: ...") (ok = FALSE) or returns header and
\* payload; error names the exception that leaves the function
verify_compact_trusting(token, vk) ==
    [ok |-> TRUE, error |-> "",
     header |-> b64url_decode(token.h), payload |-> b64url_decode(token.p)]

verify_compact(token, vk) ==
    LET exc == CompactRaises(token, vk)
    IN  IF token.parts # 3
        THEN [ok |-> FALSE, error |-> "verification failed",
              header |-> AuthyHeader, payload |-> AuthyPayload(NoJti, 0, 0)]
        ELSE [ok |-> exc = "",
              error |-> IF exc = "" THEN ""
                        ELSE IF CompactCaught(exc) THEN "verification failed" ELSE exc,
              header |-> b64url_decode(token.h), payload |-> b64url_decode(token.p)]

\* SELECT 1 FROM revocations WHERE jti=?
is_revoked_never(table, jti) == FALSE
is_revoked(table, jti) == jti \in DOMAIN table

\* INSERT OR REPLACE INTO revocations
revoke_jti_lost(table, jti, reason, by_user, now) == table
revoke_jti(table, jti, reason, by_user, now) ==
    [j \in DOMAIN table \cup {jti} |->
        IF j = jti THEN [revoked_at |-> now, reason |-> reason, by_user |-> by_user]
        ELSE table[j]]

\* INSERT OR REPLACE INTO passports
save_passport(table, jti, record, sig_b64) ==
    [j \in DOMAIN table \cup {jti} |->
        IF j = jti
        THEN [kid |-> record.kid, iat |-> record.iat, exp |-> record.exp, sig |-> sig_b64]
        ELSE table[j]]

\* req.ttl if (req.ttl and req.ttl > 0) else TTL_DEFAULT
IssueTtl_Raw(req) == req.ttl

IssueTtl(req) == IF req.given /\ req.ttl # 0 /\ req.ttl > 0 THEN req.ttl ELSE TTL_DEFAULT

\* a token the service key signed: its signature is over its own first two segments
Genuine(token) ==
    token.parts = 3 /\ token.s.val = Sign(ServiceKey, SigningInput(token.h, token.p))

\* payload.get("exp", 0) < now
TokenExpired(payload, now) == payload.exp < now

\* the tokens /issue has returned: one per row of passports
IssuedTokens ==
    {sign_compact(AuthyHeader,
                  AuthyPayload(jti, passportsDb[jti].iat, passportsDb[jti].exp),
                  ServiceKey) : jti \in DOMAIN passportsDb}

\* what a client can make of a token without the service key: the token, the same
\* signature or payload in another base64 text, a later exp, a signature of its own,
\* a token cut to two segments
TokenVariants(token) ==
    {token,
     [token EXCEPT !.s.enc = "loose"],
     [token EXCEPT !.p.enc = "loose"],
     [token EXCEPT !.p.val.exp = @ + TTL_DEFAULT],
     [token EXCEPT !.s.val.key = AttackerKey],
     [token EXCEPT !.parts = 2]}

\* tokens a client signs itself, for any jti
ForgedTokens ==
    {sign_compact(AuthyHeader, AuthyPayload(jti, 0, MaxClock + TTL_DEFAULT), AttackerKey) :
        jti \in Jtis}

PresentedTokens == ForgedTokens \cup UNION {TokenVariants(token) : token \in IssuedTokens}

\* req.token of a /revoke request that carries none
NoToken == [sign_compact(AuthyHeader, AuthyPayload(NoJti, 0, 0), AttackerKey)
               EXCEPT !.parts = 0]

NoResp ==
    [op |-> "none", status |-> 0, valid |-> FALSE, reason |-> "", jti |-> NoJti,
     carried |-> NoJti, issued |-> FALSE, revokedBefore |-> FALSE, exp |-> 0, now |-> 0,
     bearer |-> "none", req |-> NoTtl, withToken |-> FALSE, withJti |-> FALSE,
     genuine |-> FALSE]

\* ------------------------------------------------------------ authy handlers
\* The handlers are coroutines that never await: each request runs to completion
\* before the event loop takes the next one.

\* POST /issue. The handler reads the body (req) and request.client; it reads no
\* header of the request, so the bearer reaches the response record as history only.
issue(req, bearer) ==
    /\ Cardinality(DOMAIN passportsDb) < MaxTokens
    /\ \E jti \in {Cardinality(DOMAIN passportsDb) + 1} :
          LET now == clock
              ttl == IssueTtl(req)
              exp == now + ttl
              payload == AuthyPayload(jti, now, exp)
              token == sign_compact(AuthyHeader, payload, ServiceKey)
          IN  /\ passportsDb' = save_passport(passportsDb, jti, payload, token.s)
              /\ resp' = [NoResp EXCEPT !.op = "issue", !.status = 200, !.jti = jti,
                             !.carried = jti, !.issued = TRUE, !.exp = exp, !.now = now,
                             !.bearer = bearer, !.req = req]
    /\ UNCHANGED <<clock, revocations, revokeDone, leaseVars, passportVars, jwksVars, keyVars, callVars>>

\* POST /verify
verify(token) ==
    LET v == verify_compact(token, ServiceKey)
        now == clock
        jti == v.payload.jti
        asked == [NoResp EXCEPT
                     !.op = "verify", !.status = 200,
                     !.carried = IF token.parts = 3 THEN token.p.val.jti ELSE NoJti,
                     !.issued = token \in IssuedTokens,
                     !.revokedBefore = token.parts = 3 /\ token.p.val.jti \in revokeDone,
                     !.exp = token.p.val.exp, !.now = now]
    IN  /\ resp' = IF ~v.ok
                   THEN [asked EXCEPT !.reason = "verification failed"]
                   ELSE IF TokenExpired(v.payload, now)
                   THEN [asked EXCEPT !.reason = "expired"]
                   ELSE IF jti = NoJti
                   THEN [asked EXCEPT !.reason = "missing jti"]
                   ELSE IF is_revoked(revocations, jti)
                   THEN [asked EXCEPT !.reason = "revoked"]
                   ELSE [asked EXCEPT !.valid = TRUE, !.jti = jti]
        /\ UNCHANGED <<clock, passportsDb, revocations, revokeDone, leaseVars, passportVars, jwksVars, keyVars, callVars>>

\* POST /revoke: status 400 when the token does not verify or no jti is found
revoke(token, req_jti) ==
    LET fromToken == token # NoToken /\ req_jti = NoJti
        v == verify_compact(token, ServiceKey)
        jti == IF fromToken THEN v.payload.jti ELSE req_jti
        asked == [NoResp EXCEPT !.op = "revoke", !.now = clock,
                     !.withToken = (token # NoToken), !.withJti = (req_jti # NoJti),
                     !.genuine = Genuine(token),
                     !.carried = IF token.parts = 3 THEN token.p.val.jti ELSE NoJti]
    IN  /\ IF fromToken /\ ~v.ok
           THEN /\ resp' = [asked EXCEPT !.status = 400, !.reason = "invalid token"]
                /\ UNCHANGED <<revocations, revokeDone>>
           ELSE IF jti = NoJti
           THEN /\ resp' = [asked EXCEPT !.status = 400, !.reason = "jti or token required"]
                /\ UNCHANGED <<revocations, revokeDone>>
           ELSE /\ revocations' = revoke_jti(revocations, jti, "", "api", clock)
                /\ revokeDone' = revokeDone \cup {jti}
                /\ resp' = [asked EXCEPT !.status = 200, !.jti = jti]
        /\ UNCHANGED <<clock, passportsDb, leaseVars, passportVars, jwksVars, keyVars, callVars>>

AuthyAtRest ==
    /\ passportsDb = [j \in {} |-> 0]
    /\ revocations = [j \in {} |-> 0]
    /\ resp = NoResp
    /\ revokeDone = {}

\* --------------------------------------------------------- passport domain
Agents == {"agent-1", "agent-2"}
Sessions == {"session-1", "session-2"}
\* redacted_metrics dictionaries. "unstable_t" holds the tuple ("unstable",) where
\* "unstable" holds the list ["unstable"]: unequal dictionaries
Metrics == {"stable", "unstable", "unstable_t"}
\* passport.get("ttl_s_original", 60)
TtlOriginalDefault == 60
PassportTtls == {1, TtlOriginalDefault}
\* the values secrets.token_hex(16) returns, numbered: those of the passports
\* issued and one of a passport issued elsewhere
Nonces == 1..(MaxIssues + 1)
\* a key the passport dictionary does not hold
Missing == 0

\* the key pair _load_keys returns
PassportKey == "ismx"

\* json.dumps(payload, sort_keys=True, separators=(",", ":")): a tuple is written
\* as a list
json_dumps(payload) == IF payload = "unstable_t" THEN "unstable" ELSE payload

\* HMAC-SHA256 under COMMIT_KEY, hex: distinct texts give distinct digests
hmac_commit(payload) == [key |-> "COMMIT_KEY", msg |-> json_dumps(payload)]

\* a commitment value that is not an ASCII string: hmac.compare_digest raises TypeError
NonAsciiCommit == [key |-> "", msg |-> "non-ascii"]

\* hmac.compare_digest(expected_commit, actual_commit)
compare_digest_always(a, b) == TRUE
compare_digest(a, b) == a = b

pack_message(agent_id, session_id, commitment, ttl_s, nonce) ==
    [agent_id |-> agent_id, session_id |-> session_id, commitment |-> commitment,
     ttl_s |-> ttl_s, nonce |-> nonce]

\* sig_b64: the signature and the text that encodes it. "canon" is what b64encode
\* writes, "loose" another text that b64decode turns into the same 64 bytes,
\* "not_base64" a text b64decode rejects (binascii.Error, a ValueError),
\* "other_length" the encoding of bytes that are not 64 long
SigTexts == {"canon", "loose", "not_base64", "other_length"}

NoPassport ==
    [agent_id |-> "", session_id |-> "", commitment |-> NonAsciiCommit, nonce |-> Missing,
     sig_b64 |-> Segment(Sign("", pack_message("", "", NonAsciiCommit, 0, Missing)), "canon"),
     vk_b64 |-> "", exp |-> 0, ttl_s_original |-> Missing, issued_at |-> 0]

\* the return statement verify_passport reaches or the exception raised inside its try
VerifyOutcome(p, agent_id, session_id, redacted_metrics, now) ==
    IF now > p.exp THEN "False"
    ELSE IF p.commitment = NonAsciiCommit THEN "TypeError"
    ELSE IF ~compare_digest(hmac_commit(redacted_metrics), p.commitment) THEN "False"
    ELSE IF p.agent_id # agent_id THEN "False"
    ELSE IF p.session_id # session_id THEN "False"
    ELSE IF p.nonce = Missing THEN "KeyError"
    ELSE IF p.sig_b64.enc = "not_base64" THEN "ValueError"
    ELSE IF p.sig_b64.enc = "other_length" THEN "ValueError"
    ELSE LET ttl_s == IF p.ttl_s_original = Missing THEN TtlOriginalDefault
                      ELSE p.ttl_s_original
             msg == pack_message(agent_id, session_id, p.commitment, ttl_s, p.nonce)
         IN  IF Verifies(p.vk_b64, msg, p.sig_b64.val) THEN "True"
             ELSE "BadSignatureError"

\* except (BadSignatureError, KeyError, ValueError, TypeError): return False
CaughtErrors == {"BadSignatureError", "KeyError", "ValueError", "TypeError"}

\* "True", "False", or the name of an exception that leaves the function
verify_passport_result(p, agent_id, session_id, redacted_metrics, now) ==
    LET outcome == VerifyOutcome(p, agent_id, session_id, redacted_metrics, now)
    IN  IF outcome \in CaughtErrors THEN "False" ELSE outcome

\* the fields the signature covers, and the signature
SignedFields == {"agent_id", "session_id", "commitment", "ttl_s_original", "nonce"}
TamperFields == SignedFields \cup {"sig_b64"}

\* signatures other than the passport's: by another key over the same message, and by
\* the service over the messages of other passports, which hold another nonce
OtherSignatures(p) ==
    LET msg == p.sig_b64.val.msg
    IN  {Sign("attacker", msg)} \cup
        {Sign(PassportKey, [msg EXCEPT !.nonce = n]) : n \in Nonces \ {p.nonce}} \cup
        {Sign(PassportKey, [msg EXCEPT !.nonce = n, !.agent_id = a]) :
            n \in Nonces \ {p.nonce}, a \in Agents \ {p.agent_id}}

\* the fields the signature does not cover that bound the validity window
WindowFields == {"exp", "issued_at"}

\* what a holder of p who has a key pair of its own can build for another agent or
\* session: commitment, nonce and ttl copied, its own signature and its own verify
\* key in vk_b64
Forged(p) ==
    {[p EXCEPT !.agent_id = as[1], !.session_id = as[2], !.vk_b64 = AttackerKey,
               !.sig_b64 = Segment(Sign(AttackerKey,
                                        pack_message(as[1], as[2], p.commitment,
                                                     p.ttl_s_original, p.nonce)),
                                   "canon")] :
        as \in (Agents \X Sessions) \ {<<p.agent_id, p.session_id>>}}

\* the passport with one field replaced by another value
Tampered(p, field) ==
    CASE field = "agent_id" -> {[p EXCEPT !.agent_id = a] : a \in Agents \ {p.agent_id}}
      [] field = "session_id" ->
            {[p EXCEPT !.session_id = s] : s \in Sessions \ {p.session_id}}
      [] field = "commitment" ->
            {[p EXCEPT !.commitment = c] :
                c \in ({hmac_commit(m) : m \in Metrics} \cup {NonAsciiCommit})
                          \ {p.commitment}}
      [] field = "ttl_s_original" ->
            {[p EXCEPT !.ttl_s_original = t] :
                t \in (PassportTtls \cup {Missing}) \ {p.ttl_s_original}}
      [] field = "nonce" ->
            {[p EXCEPT !.nonce = n] : n \in (Nonces \cup {Missing}) \ {p.nonce}}
      [] field = "sig_b64" ->
            {[p EXCEPT !.sig_b64 = Segment(s, "canon")] : s \in OtherSignatures(p)} \cup
            {[p EXCEPT !.sig_b64.enc = e] : e \in SigTexts \ {"canon"}}
      [] field = "exp" ->
            {[p EXCEPT !.exp = e] : e \in {p.exp + 1, p.exp + TtlOriginalDefault}}
      [] field = "issued_at" ->
            {[p EXCEPT !.issued_at = i] : i \in {p.issued_at + 1}}
      [] field = "forged" -> Forged(p)
      [] OTHER -> {p}

NoVcall ==
    [op |-> "none", tamper |-> "none", presented |-> NoPassport, agent_id |-> "",
     session_id |-> "", metrics |-> "", now |-> 0, result |-> ""]

NoIssue == [agent_id |-> "", session_id |-> "", metrics |-> "", t |-> 0]

\* -------------------------------------------------------- passport actions
\* issue_passport up to exp = int(time.time()) + ttl_s: the nonce is drawn, the
\* commitment computed and the message signed
issue_passport_sign(agent_id, session_id, redacted_metrics, ttl_s) ==
    /\ pending = NoPassport
    /\ issues < MaxIssues
    /\ LET nonce == issues + 1
           commitment == hmac_commit(redacted_metrics)
           msg == pack_message(agent_id, session_id, commitment, ttl_s, nonce)
       IN  pending' = [agent_id |-> agent_id, session_id |-> session_id,
                       commitment |-> commitment, nonce |-> nonce,
                       sig_b64 |-> Segment(Sign(PassportKey, msg), "canon"),
                       vk_b64 |-> PassportKey, exp |-> clock + ttl_s,
                       ttl_s_original |-> ttl_s, issued_at |-> 0]
    /\ issuedFor' = [agent_id |-> agent_id, session_id |-> session_id,
                     metrics |-> redacted_metrics, t |-> clock]
    /\ issues' = issues + 1
    /\ vcall' = NoVcall
    /\ UNCHANGED <<clock, passport, leaseVars, authyVars, jwksVars, keyVars, callVars>>

\* "issued_at": int(time.time()), a second reading of the clock; the dictionary is
\* returned
issue_passport_return ==
    /\ pending # NoPassport
    /\ passport' = [pending EXCEPT !.issued_at = clock]
    /\ pending' = NoPassport
    /\ UNCHANGED <<clock, issues, vcall, issuedFor, leaseVars, authyVars, jwksVars, keyVars, callVars>>

\* verify_passport on the passport issued last, or on it with one field replaced.
\* The function changes nothing, so the first call after an issuance, at any clock
\* value, shows every result a later call can return; only that call is recorded.
verify_passport(field, agent_id, session_id, redacted_metrics) ==
    /\ passport # NoPassport
    /\ pending = NoPassport
    /\ vcall = NoVcall
    /\ \E p \in Tampered(passport, field) :
          vcall' = [op |-> "verify", tamper |-> field, presented |-> p,
                    agent_id |-> agent_id, session_id |-> session_id,
                    metrics |-> redacted_metrics, now |-> clock,
                    result |-> verify_passport_result(p, agent_id, session_id,
                                                      redacted_metrics, clock)]
    /\ UNCHANGED <<clock, passport, pending, issues, issuedFor, leaseVars, authyVars, jwksVars, keyVars, callVars>>

PassportAtRest ==
    /\ passport = NoPassport
    /\ pending = NoPassport
    /\ issues = 0
    /\ vcall = NoVcall
    /\ issuedFor = NoIssue

\* ------------------------------------------------------------- jwks domain
\* JWKS_CACHE["ttl"], in seconds
JwksTtl == 300
\* time.time(): a tick of the clock is JwksTick seconds
time_time == JwksTick * clock
\* JWKS_CACHE["keys"] = None
NoDoc == [kind |-> "none", kids |-> {}]
\* documents r.json() returns: key sets, and one with no "keys" list
JwksDocs == {[kind |-> "jwks", kids |-> {"k1"}], [kind |-> "jwks", kids |-> {"k1", "k2"}]}
MalformedDoc == [kind |-> "no_keys", kids |-> {}]
\* what httpx.get and raise_for_status end in: a document, or an httpx.HTTPError
\* (network error or error status)
HttpError == [kind |-> "http_error", kids |-> {}]
Upstream == JwksDocs \cup {MalformedDoc, HttpError}

\* the tokens verify_jwt is handed: the empty string, a text that is no JWT, and JWTs
\* by their header (kid, alg), whether the signature verifies under the JWKS key of
\* that kid, and whether exp, aud and iss pass
NoJwt == [form |-> "none", kid |-> "", alg |-> "", sig |-> FALSE, exp_ok |-> FALSE,
          aud_ok |-> FALSE, iss_ok |-> FALSE]
GoodJwt == [form |-> "jwt", kid |-> "k1", alg |-> "RS256", sig |-> TRUE, exp_ok |-> TRUE,
            aud_ok |-> TRUE, iss_ok |-> TRUE]
Jwts ==
    {GoodJwt,
     [NoJwt EXCEPT !.form = "empty"],
     [NoJwt EXCEPT !.form = "not_jwt"],
     [GoodJwt EXCEPT !.kid = ""],
     [GoodJwt EXCEPT !.alg = "HS256"],
     [GoodJwt EXCEPT !.kid = "k9"],
     [GoodJwt EXCEPT !.kid = "k2"],
     [GoodJwt EXCEPT !.sig = FALSE],
     [GoodJwt EXCEPT !.exp_ok = FALSE],
     [GoodJwt EXCEPT !.aud_ok = FALSE],
     [GoodJwt EXCEPT !.iss_ok = FALSE],
     [GoodJwt EXCEPT !.exp_ok = FALSE, !.aud_ok = FALSE],
     [GoodJwt EXCEPT !.aud_ok = FALSE, !.iss_ok = FALSE]}

\* now - JWKS_CACHE["ts"] < JWKS_CACHE["ttl"]
CacheFresh_Never(now, ts, ttl) == FALSE
CacheFresh(now, ts, ttl) == now - ts < ttl

\* "keys" not in jwks or not isinstance(jwks["keys"], list)
InvalidStructure_Never(doc) == FALSE
InvalidStructure(doc) == doc.kind # "jwks"

\* if JWKS_CACHE["keys"]: the stale cache is the fallback
HasStale_Never(cache) == FALSE
HasStale(cache) == cache.keys # NoDoc

\* JWKS_CACHE["keys"] and JWKS_CACHE["ts"] as the module is loaded and as
\* clear_jwks_cache leaves them
NoCache == [keys |-> NoDoc, ts |-> 0]

JIdle ==
    [pc |-> "idle", op |-> "none", now |-> 0, token |-> NoJwt, before |-> NoCache,
     upstream |-> "none", freshAtStart |-> FALSE, cleared |-> FALSE,
     storedSince |-> FALSE]

JOff == [JIdle EXCEPT !.pc = "off"]

JCanStart(t) == jthr[t].pc = "idle" /\ jcalls < MaxCalls

\* history kept by the calls in progress: another call stored a fetched key set
\* while they waited for the lock, or the cache was cleared after they began
NoteStored(me) ==
    IF me.pc = "jw_lock" THEN [me EXCEPT !.storedSince = TRUE] ELSE me

NoteCleared(me) ==
    IF me.pc \in {"idle", "off"} THEN me
    ELSE [me EXCEPT !.cleared = TRUE, !.storedSince = FALSE]

NoJlast ==
    [op |-> "none", path |-> "", value |-> NoDoc, raised |-> "", error |-> "",
     cause |-> "", upstream |-> "none", before |-> NoCache, cacheSame |-> TRUE,
     token |-> NoJwt, freshAtStart |-> FALSE, cleared |-> FALSE, claims |-> FALSE]

NoPrev == [cause |-> "", error |-> ""]

\* ------------------------------------------------------------ verify_jwt
\* jwt.decode of python-jose: the signature first, then exp, aud, iss in this order;
\* the except clauses of verify_jwt turn the exception into the message raised
DecodeError(token) ==
    IF ~token.sig THEN "Invalid JWT: JWTError"
    ELSE IF ~token.exp_ok THEN "Invalid JWT: ExpiredSignatureError"
    ELSE IF ~token.aud_ok THEN "Invalid JWT: JWTClaimsError"
    ELSE IF ~token.iss_ok THEN "Invalid JWT: JWTClaimsError"
    ELSE ""

\* why jwt.decode rejects the token
DecodeCause(token) ==
    IF ~token.sig THEN "bad_signature"
    ELSE IF ~token.exp_ok THEN "expired"
    ELSE IF ~token.aud_ok THEN "audience"
    ELSE IF ~token.iss_ok THEN "issuer"
    ELSE "none"

\* the checks of verify_jwt before _jwks is called: the message raised, "" to go on
HeaderError_EmptyOnly(token) == IF token.form = "empty" THEN "Empty token" ELSE ""

HeaderError(token) ==
    IF token.form = "empty" THEN "Empty token"
    ELSE IF token.form = "not_jwt" THEN "Invalid JWT: JWTError"
    ELSE IF token.kid = "" THEN "Token verification failed"
    ELSE IF token.alg # "RS256" THEN "Token verification failed"
    ELSE ""

HeaderCause(token) ==
    IF token.form = "empty" THEN "empty"
    ELSE IF token.form = "not_jwt" THEN "malformed"
    ELSE IF token.kid = "" THEN "kid_missing"
    ELSE IF token.alg # "RS256" THEN "alg_unsupported"
    ELSE "none"

\* verify_jwt after _jwks returned value or raised: key lookup, then jwt.decode
AfterJwksError(token, value, raised) ==
    IF raised # "" THEN "Token verification failed"
    ELSE IF value = NoDoc THEN "Token verification failed"
    ELSE IF token.kid \notin value.kids THEN "Token verification failed"
    ELSE DecodeError(token)

AfterJwksCause(token, value, raised) ==
    IF raised # "" THEN "jwks_unavailable"
    ELSE IF value = NoDoc THEN "jwks_none"
    ELSE IF token.kid \notin value.kids THEN "kid_unknown"
    ELSE DecodeCause(token)

\* ---------------------------------------------------------------- _jwks
\* now = time.time() and the first operand of the unlocked test, JWKS_CACHE["keys"]
JwksEnter(me) ==
    [me EXCEPT !.now = time_time,
               !.freshAtStart = (jwksCache.keys # NoDoc /\ time_time - jwksCache.ts < JwksTtl),
               !.pc = IF jwksCache.keys = NoDoc THEN "jw_lock" ELSE "jw_ts"]

\* the call of thread t ends: _jwks returns value or raises, leaving the cache as
\* after, and verify_jwt, when it is the caller, finishes with the key lookup and
\* jwt.decode
JwksLeave(t, me, path, value, raised, after) ==
    LET error == IF me.op = "verify_jwt" THEN AfterJwksError(me.token, value, raised) ELSE raised
        cause == IF me.op = "verify_jwt" THEN AfterJwksCause(me.token, value, raised) ELSE ""
    IN  /\ jthr' = [u \in Threads |-> IF u = t THEN JIdle
                                       ELSE IF path = "fetched" THEN NoteStored(jthr[u])
                                       ELSE jthr[u]]
        /\ jlast' = [op |-> me.op, path |-> path, value |-> value, raised |-> raised,
                     error |-> error, cause |-> cause, upstream |-> me.upstream,
                     before |-> me.before,
                     cacheSame |-> (path \in {"fast", "recheck"} \/ after = me.before),
                     token |-> me.token,
                     freshAtStart |-> me.freshAtStart, cleared |-> me.cleared,
                     claims |-> (me.op = "verify_jwt" /\ error = "")]
        /\ jprev' = IF me.op = "verify_jwt" /\ jlast.op = "verify_jwt"
                    THEN [cause |-> jlast.cause, error |-> jlast.error] ELSE jprev

JwksBegin(t) ==
    /\ JCanStart(t)
    /\ jcalls' = jcalls + 1
    /\ jthr' = [jthr EXCEPT ![t] = JwksEnter([JIdle EXCEPT !.op = "jwks"])]
    /\ UNCHANGED <<clock, jwksCache, jwksLock, jlast, jprev, leaseVars, authyVars, passportVars, keyVars, callVars>>

\* the second operand of the unlocked test: now - ts < ttl
JwksReadTs(t) ==
    /\ jthr[t].pc = "jw_ts"
    /\ jthr' = [jthr EXCEPT ![t].pc =
                   IF CacheFresh(jthr[t].now, jwksCache.ts, JwksTtl) THEN "jw_fast" ELSE "jw_lock"]
    /\ UNCHANGED <<clock, jwksCache, jwksLock, jlast, jprev, jcalls, leaseVars, authyVars, passportVars, keyVars, callVars>>

\* return JWKS_CACHE["keys"] of the unlocked path
JwksFastReturn(t) ==
    /\ jthr[t].pc = "jw_fast"
    /\ JwksLeave(t, jthr[t], "fast", jwksCache.keys, "", jwksCache)
    /\ UNCHANGED <<clock, jwksCache, jwksLock, jcalls, leaseVars, authyVars, passportVars, keyVars, callVars>>

\* with JWKS_LOCK: and the test again, with the now read when the call began
JwksLockRecheck(t) ==
    /\ jthr[t].pc = "jw_lock"
    /\ jwksLock = NoThread
    /\ IF jwksCache.keys # NoDoc /\ CacheFresh(jthr[t].now, jwksCache.ts, JwksTtl)
       THEN /\ JwksLeave(t, jthr[t], "recheck", jwksCache.keys, "", jwksCache)
            /\ UNCHANGED jwksLock
       ELSE /\ jwksLock' = t
            /\ jthr' = [jthr EXCEPT ![t].pc = "jw_fetch", ![t].before = jwksCache]
            /\ UNCHANGED <<jlast, jprev>>
    /\ UNCHANGED <<clock, jwksCache, jcalls, leaseVars, authyVars, passportVars, keyVars, callVars>>

\* httpx.get, raise_for_status, r.json(), the structure test and JWKS_CACHE["keys"] =
\* jwks; the except clauses when one of them raises
JwksFetch(t, response) ==
    /\ jthr[t].pc = "jw_fetch"
    /\ LET me == [jthr[t] EXCEPT !.upstream = response.kind]
       IN  IF response = HttpError
           THEN /\ IF HasStale(jwksCache)
                   THEN JwksLeave(t, me, "stale", jwksCache.keys, "", jwksCache)
                   ELSE JwksLeave(t, me, "raise", NoDoc, "HTTPError", jwksCache)
                /\ jwksLock' = NoThread
                /\ UNCHANGED jwksCache
           ELSE IF InvalidStructure(response)
           THEN /\ JwksLeave(t, me, "raise", NoDoc, "ValueError", jwksCache)
                /\ jwksLock' = NoThread
                /\ UNCHANGED jwksCache
           ELSE /\ jwksCache' = [jwksCache EXCEPT !.keys = response]
                /\ jthr' = [jthr EXCEPT ![t] = [me EXCEPT !.pc = "jw_store_ts"]]
                /\ UNCHANGED <<jwksLock, jlast, jprev>>
    /\ UNCHANGED <<clock, jcalls, leaseVars, authyVars, passportVars, keyVars, callVars>>

\* JWKS_CACHE["ts"] = now, return jwks, and the lock is released
JwksStoreTs(t) ==
    /\ jthr[t].pc = "jw_store_ts"
    /\ jwksCache' = [jwksCache EXCEPT !.ts = jthr[t].now]
    /\ jwksLock' = NoThread
    /\ JwksLeave(t, jthr[t], "fetched", jwksCache.keys, "",
                 [jwksCache EXCEPT !.ts = jthr[t].now])
    /\ UNCHANGED <<clock, jcalls, leaseVars, authyVars, passportVars, keyVars, callVars>>

\* clear_jwks_cache: with JWKS_LOCK: JWKS_CACHE["keys"] = None
ClearKeys(t) ==
    /\ JCanStart(t)
    /\ jwksLock = NoThread
    /\ jcalls' = jcalls + 1
    /\ jwksLock' = t
    /\ jwksCache' = [jwksCache EXCEPT !.keys = NoDoc]
    /\ jthr' = [u \in Threads |->
                   IF u = t THEN [JIdle EXCEPT !.pc = "cl_ts", !.op = "clear"]
                   ELSE NoteCleared(jthr[u])]
    /\ UNCHANGED <<clock, jlast, jprev, leaseVars, authyVars, passportVars, keyVars, callVars>>

\* clear_jwks_cache: JWKS_CACHE["ts"] = 0 and the lock is released
ClearTs(t) ==
    /\ jthr[t].pc = "cl_ts"
    /\ jwksCache' = [jwksCache EXCEPT !.ts = 0]
    /\ jwksLock' = NoThread
    /\ jthr' = [jthr EXCEPT ![t] = JIdle]
    /\ UNCHANGED <<clock, jlast, jprev, jcalls, leaseVars, authyVars, passportVars, keyVars, callVars>>

\* verify_jwt(token) up to its call of _jwks
VerifyJwtBegin(t, token) ==
    /\ JCanStart(t)
    /\ jcalls' = jcalls + 1
    /\ IF HeaderError(token) # ""
       THEN /\ jlast' = [NoJlast EXCEPT !.op = "verify_jwt", !.path = "header",
                                        !.error = HeaderError(token),
                                        !.token = token,
                                        !.cause = HeaderCause(token)]
            /\ jprev' = IF jlast.op = "verify_jwt"
                        THEN [cause |-> jlast.cause, error |-> jlast.error] ELSE jprev
            /\ UNCHANGED jthr
       ELSE /\ jthr' = [jthr EXCEPT ![t] = JwksEnter([JIdle EXCEPT !.op = "verify_jwt",
                                                                   !.token = token])]
            /\ UNCHANGED <<jlast, jprev>>
    /\ UNCHANGED <<clock, jwksCache, jwksLock, leaseVars, authyVars, passportVars, keyVars, callVars>>

JwksAtRest ==
    /\ jwksCache = NoCache
    /\ jwksLock = NoThread
    /\ jthr = [t \in Threads |-> JOff]
    /\ jlast = NoJlast
    /\ jprev = NoPrev
    /\ jcalls = 0

\* -------------------------------------------------------------- key loading
\* os.getenv("ENV", "development"): the variable unset reads as "development"
EnvModes == {"unset", "development", "production"}

env_mode(env) == IF env.ENV = "unset" THEN "development" ELSE env.ENV

\* the file at KEY_PATH: absent, the 32 raw bytes of a key, or other bytes
KeyFiles == {"absent", "key32", "other"}

\* an environment variable holding a key: unset, the base64 of a key, or other text
KeyVals == {"", "key", "other"}

KeyEnvs == [ENV : EnvModes, ED25519_SK_B64 : KeyVals, ED25519_VK_B64 : KeyVals]

NoKeyResult == [op |-> "none", outcome |-> "", generated |-> FALSE, persisted |-> FALSE,
                mode |-> "", fileBefore |-> "absent", configured |-> FALSE]

\* ensure_keypair(), run as authy_server is imported
ensure_keypair ==
    /\ keyCalls < MaxCalls
    /\ keyCalls' = keyCalls + 1
    /\ IF keyFile = "absent"
       THEN /\ keyFile' = "key32"
            /\ keyResult' = [op |-> "ensure_keypair", outcome |-> "key", generated |-> TRUE,
                             persisted |-> TRUE, mode |-> env_mode(keyEnv),
                             fileBefore |-> keyFile, configured |-> FALSE]
       ELSE /\ keyFile' = keyFile
            /\ keyResult' = [op |-> "ensure_keypair",
                             outcome |-> IF keyFile = "key32" THEN "key" ELSE "error",
                             generated |-> FALSE, persisted |-> FALSE,
                             mode |-> env_mode(keyEnv), fileBefore |-> keyFile,
                             configured |-> TRUE]
    /\ UNCHANGED <<clock, keyEnv, leaseVars, authyVars, passportVars, jwksVars, callVars>>

\* _load_keys(), run by issue_passport and verify_passport
load_keys ==
    /\ keyCalls < MaxCalls
    /\ keyCalls' = keyCalls + 1
    /\ LET configured == keyEnv.ED25519_SK_B64 # "" /\ keyEnv.ED25519_VK_B64 # ""
           decodes == keyEnv.ED25519_SK_B64 = "key" /\ keyEnv.ED25519_VK_B64 = "key"
       IN  keyResult' = [op |-> "_load_keys",
                         outcome |-> IF configured
                                     THEN (IF decodes THEN "key" ELSE "error")
                                     ELSE IF env_mode(keyEnv) = "development"
                                     THEN "key" ELSE "error",
                         generated |-> ~configured /\ env_mode(keyEnv) = "development",
                         persisted |-> FALSE, mode |-> env_mode(keyEnv),
                         fileBefore |-> keyFile, configured |-> configured]
    /\ UNCHANGED <<clock, keyEnv, keyFile, leaseVars, authyVars, passportVars, jwksVars, callVars>>

\* the deployment between two starts of the service: the key file is removed or
\* replaced, the environment is set
Deploy(env, file) ==
    /\ keyCalls < MaxCalls
    /\ keyEnv' = env
    /\ keyFile' = file
    /\ UNCHANGED <<clock, keyCalls, keyResult, leaseVars, authyVars, passportVars, jwksVars, callVars>>

KeysAtRest ==
    /\ keyEnv = [ENV |-> "unset", ED25519_SK_B64 |-> "", ED25519_VK_B64 |-> ""]
    /\ keyFile = "absent"
    /\ keyResult = NoKeyResult
    /\ keyCalls = 0

\* ------------------------------------------------------------- ismx.policy
\* the names an approvers list can hold; "" is the empty name
ApproverNames == {"", "alice", "bob", "carol", "dave"}
ApproverLists == UNION {[1..n -> ApproverNames] : n \in 0..MaxApprovers}

\* quorum_3_of_5(approvers): at least three distinct non-empty names
quorum_3_of_5_by_length(approvers) == Len(approvers) >= 3

quorum_3_of_5(approvers) ==
    Cardinality({approvers[i] : i \in 1..Len(approvers)} \ {""}) >= 3

quorum_call(approvers) ==
    /\ answers = 0
    /\ answers' = 1
    /\ answer' = [op |-> "quorum_3_of_5", approvers |-> approvers,
                  out |-> quorum_3_of_5(approvers)]
    /\ UNCHANGED <<clock, leaseVars, authyVars, passportVars, jwksVars, keyVars>>

\* -------------------------------------------------------------- ismx.audit
AuditKey == "AUDIT_KEY"
\* the arguments of audit_receipt: JSON values
AuditActions == {"db:read", "db:admin"}
AuditInputs == {"select", "drop"}
AuditLeases == {"L1", "L2"}
AuditHashes == {"h1", "h2"}
\* ts_bucket: omitted (None), or a minute
AuditBuckets == {<<>>, <<0>>, <<1>>}

\* the current minute: unix time / 60
MinuteNow == clock \div 60

\* canonical_encode(payload): one text per JSON document
canonical_encode(payload) == payload

\* SHA-256 hex and HMAC-SHA256 hex: distinct inputs give distinct digests
sha256(text) == [sha256 |-> text]

hmac_sha256(key, msg) == [key |-> key, msg |-> msg]

\* recompute(payload): digest and mac of a payload
recompute(payload) ==
    LET digest == sha256(canonical_encode(payload))
    IN  [digest |-> digest, mac |-> hmac_sha256(AuditKey, digest)]

audit_receipt(action_id, inputs, lease, result_hash, ts_bucket) ==
    LET payload == [action_id |-> action_id, inputs |-> inputs, lease |-> lease,
                    result_hash |-> result_hash,
                    ts_bucket |-> IF ts_bucket = <<>> THEN MinuteNow ELSE ts_bucket[1]]
    IN  [payload |-> payload, digest |-> recompute(payload).digest,
         mac |-> recompute(payload).mac]

\* verify_receipt(receipt): both recomputed and compared
verify_receipt_digest_only(receipt) ==
    recompute(receipt.payload).digest = receipt.digest

verify_receipt(receipt) ==
    /\ recompute(receipt.payload).digest = receipt.digest
    /\ recompute(receipt.payload).mac = receipt.mac

\* what a holder of a receipt without the audit key can make of it: one payload
\* field changed; the same with the digest recomputed; the same with a mac of its
\* own on top; another receipt's digest; a mac of its own or another receipt's
ReceiptTamperings == {"none", "payload", "payload_digest", "payload_digest_mac",
                      "digest", "mac"}

OtherPayloads(payload) ==
    {[payload EXCEPT !.action_id = a] : a \in AuditActions \ {payload.action_id}} \cup
    {[payload EXCEPT !.inputs = i] : i \in AuditInputs \ {payload.inputs}} \cup
    {[payload EXCEPT !.result_hash = h] : h \in AuditHashes \ {payload.result_hash}} \cup
    {[payload EXCEPT !.ts_bucket = payload.ts_bucket + 1]}

TamperedReceipts(r, how) ==
    CASE how = "payload" -> {[r EXCEPT !.payload = q] : q \in OtherPayloads(r.payload)}
      [] how = "payload_digest" ->
            {[r EXCEPT !.payload = q, !.digest = sha256(canonical_encode(q))] :
                q \in OtherPayloads(r.payload)}
      [] how = "payload_digest_mac" ->
            {[payload |-> q, digest |-> sha256(canonical_encode(q)),
              mac |-> hmac_sha256(AttackerKey, sha256(canonical_encode(q)))] :
                q \in OtherPayloads(r.payload)}
      [] how = "digest" ->
            {[r EXCEPT !.digest = sha256(canonical_encode(q))] :
                q \in OtherPayloads(r.payload)}
      [] how = "mac" ->
            {[r EXCEPT !.mac = hmac_sha256(AttackerKey, r.digest)]} \cup
            {[r EXCEPT !.mac = recompute(q).mac] : q \in OtherPayloads(r.payload)}
      [] OTHER -> {r}

\* a receipt is made and then verified, as made or tampered with
receipt_call(action_id, inputs, lease, result_hash, ts_bucket, how) ==
    /\ answers = 0
    /\ answers' = 1
    /\ \E presented \in TamperedReceipts(audit_receipt(action_id, inputs, lease,
                                                      result_hash, ts_bucket), how) :
          answer' = [op |-> "verify_receipt", how |-> how,
                     made |-> audit_receipt(action_id, inputs, lease, result_hash,
                                            ts_bucket),
                     presented |-> presented, out |-> verify_receipt(presented)]
    /\ UNCHANGED <<clock, leaseVars, authyVars, passportVars, jwksVars, keyVars>>

\* ------------------------------------------------ examples/mcp_integration.py
\* A query is its words in order; a word is text without blanks, in either case.
QueryWords == {"SELECT", "drop", "DROP", "TABLE", "DELETE", "FROM", "TRUNCATE", "users"}
Queries == UNION {[1..n -> QueryWords] : n \in 0..MaxWords}

\* str.upper() of a word
Upper(w) == IF w = "drop" THEN "DROP" ELSE w

\* query.strip().upper()
query_upper(query) == [i \in 1..Len(query) |-> Upper(query[i])]

\* query_upper.startswith(cmd)
StartsWith(q, cmd) ==
    /\ Len(cmd) <= Len(q)
    /\ \A i \in 1..Len(cmd) : q[i] = cmd[i]

\* cmd in query_upper
Contains(q, cmd) ==
    \E k \in 0..(Len(q) - Len(cmd)) : \A i \in 1..Len(cmd) : q[k + i] = cmd[i]

AdminCommands == {<<"DROP">>, <<"TRUNCATE">>, <<"ALTER">>, <<"CREATE", "DATABASE">>,
                  <<"GRANT">>, <<"REVOKE">>}
WriteCommands == {<<"INSERT">>, <<"UPDATE">>, <<"DELETE">>, <<"CREATE">>, <<"MERGE">>}

determine_operation_type(query) ==
    IF \E cmd \in AdminCommands : StartsWith(query_upper(query), cmd) THEN "admin"
    ELSE IF \E cmd \in WriteCommands : StartsWith(query_upper(query), cmd) THEN "write"
    ELSE "read"

sensitive_keywords == {<<"DROP", "TABLE">>, <<"DROP", "DATABASE">>, <<"TRUNCATE">>,
                       <<"DELETE", "FROM">>, <<"ALTER", "TABLE">>, <<"GRANT", "ALL">>}

is_sensitive_query(query) ==
    \E keyword \in sensitive_keywords : Contains(query_upper(query), keyword)

\* the Authorization header: absent, not a Bearer header, a token verify_jwt
\* refuses, or a token whose claims grant some of the database scopes
DbScopes == {"db:read", "db:write", "db:admin"}
Authorizations ==
    [header : {"absent", "malformed", "refused"}, scopes : {{}}] \cup
    [header : {"bearer"}, scopes : SUBSET DbScopes]

\* get_authenticated_user: the status it raises, 0 when it returns the claims
get_authenticated_user(auth) == IF auth.header = "bearer" THEN 0 ELSE 401

\* require_db_scope(claims, operation): the status it raises, 0 when it returns
scope_map(operation) ==
    CASE operation = "read" -> "db:read"
      [] operation = "write" -> "db:write"
      [] operation = "admin" -> "db:admin"
      [] OTHER -> "db:read"

require_db_scope(auth, operation) ==
    IF scope_map(operation) \in auth.scopes THEN 0 ELSE 403

\* the approvers of a /db/sensitive_query body
ApproverSamples == {<<>>, <<"alice", "bob">>, <<"alice", "bob", "carol">>,
                    <<"alice", "alice", "bob">>, <<"alice", "bob", "">>,
                    <<"alice", "alice", "bob", "carol">>}

\* SensitiveQueryRequest: approvers has min_items=3; DatabaseQueryRequest: query
\* has min_length=1
QueryLeaseTtl == 30
SensitiveLeaseTtl == 60

BodyInvalid(endpoint, query, approvers) ==
    IF endpoint = "/db/query" THEN Len(query) < 1 ELSE Len(approvers) < 3

\* the status of a request and the checks it passed on the way
db_status(endpoint, auth, query, approvers) ==
    IF get_authenticated_user(auth) # 0 THEN 401
    ELSE IF BodyInvalid(endpoint, query, approvers) THEN 422
    ELSE IF endpoint = "/db/query"
         THEN (IF require_db_scope(auth, determine_operation_type(query)) # 0
               THEN 403 ELSE 200)
    ELSE IF require_db_scope(auth, "admin") # 0 THEN 403
    ELSE IF ~quorum_3_of_5(approvers) THEN 403
    ELSE 200

\* execute_query, execute_sensitive_query: one request from its arrival to its
\* response. A request that passes the checks is issued a lease, consumes it
\* (within its ttl) and has its query executed.
db_request(endpoint, auth, query, approvers) ==
    /\ answers = 0
    /\ answers' = 1
    /\ LET status == db_status(endpoint, auth, query, approvers)
           operation == IF endpoint = "/db/query"
                        THEN determine_operation_type(query) ELSE "admin"
           ttl_s == IF endpoint = "/db/query" THEN QueryLeaseTtl ELSE SensitiveLeaseTtl
       IN  /\ answer' = [op |-> "db", endpoint |-> endpoint, auth |-> auth,
                         query |-> query, approvers |-> approvers,
                         status |-> status, executed |-> status = 200,
                         quorum |-> /\ endpoint = "/db/sensitive_query"
                                    /\ status = 200
                                    /\ quorum_3_of_5(approvers)]
           /\ IF status = 200
              THEN \E id \in LeaseIds \ DOMAIN activeLeases :
                      LET lease == [lease_id |-> id, scope |-> scope_map(operation),
                                    exp |-> clock + ttl_s]
                      IN  /\ activeLeases' = [i \in DOMAIN activeLeases \cup {id} |->
                                                IF i = id
                                                THEN [StoredLease(lease) EXCEPT !.used = TRUE]
                                                ELSE activeLeases[i]]
                          /\ usedLeases' = usedLeases \cup {id}
                          /\ registered' = [i \in DOMAIN registered \cup {id} |->
                                              IF i = id
                                              THEN [scope |-> lease.scope, exp |-> lease.exp,
                                                    issued |-> clock]
                                              ELSE registered[i]]
                          /\ consumedOk' = [i \in DOMAIN consumedOk \cup {id} |->
                                              IF i = id THEN 1 ELSE consumedOk[i]]
                          /\ wallet' = wallet \cup {lease}
              ELSE UNCHANGED <<activeLeases, usedLeases, registered, consumedOk, wallet>>
    /\ UNCHANGED <<clock, leaseLock, storageLock, thr, last, calls, world, revokedRemoved,
                   revokeReturned, authyVars, passportVars, jwksVars, keyVars>>

\* ------------------------------------------------- verify_compact, called alone
\* header and payload bytes: the service's documents and bytes that are no JSON
CompactHeaders == {AuthyHeader, NotJson}
CompactPayloads == {AuthyPayload(1, 0, TTL_DEFAULT), NotJson}
SegmentTexts == {"canon", "loose", "not_base64"}
CompactKeys == {ServiceKey, AttackerKey}
\* the tokens: two to four segments; any header and payload segment; as last
\* segment a signature by either key over the token's two segments or over those of
\* the token the service signs
CompactTokens ==
    LET ours == sign_compact(AuthyHeader, AuthyPayload(1, 0, TTL_DEFAULT), ServiceKey)
    IN  UNION {
          {[parts |-> n, h |-> h, p |-> p, s |-> Segment(Sign(k, msg), e)] :
              n \in {2, 3, 4}, k \in CompactKeys, e \in SegmentTexts,
              msg \in {SigningInput(h, p), SigningInput(ours.h, ours.p)}} :
          h \in [val : CompactHeaders, enc : SegmentTexts],
          p \in [val : CompactPayloads, enc : SegmentTexts]}

\* one call of verify_compact(token, vk)
verify_compact_call(token, vk) ==
    /\ answers = 0
    /\ answers' = 1
    /\ answer' = [op |-> "verify_compact", token |-> token, vk |-> vk,
                  out |-> verify_compact(token, vk)]
    /\ UNCHANGED <<clock, leaseVars, authyVars, passportVars, jwksVars, keyVars>>

\* ----------------------------------------------------------- verify_remote
\* no call yet: nothing in progress
NoAnswer == [op |-> "none", pc |-> "done"]

\* what requests.post(..., timeout=8) ends in: an exception (no connection, timeout)
\* or a response with a status and a body
HttpStatuses == {200, 201, 204, 401, 403, 404, 500, 502}
\* the JSON value of the body's "ok" field
OkValues == {"absent", "null", "false", "true", "0", "1", "text"}
\* the JSON value of the body's "reason" field: none, a text, a text that holds the
\* words "verify_remote error", a number
ReasonValues == {"absent", "text", "echo", "number"}
\* the bodies: no JSON (a text, with or without the words "verify_remote error"), a
\* JSON array, a JSON object
RemoteBodies ==
    {[kind |-> "not_json", ok |-> "absent", reason |-> "absent"],
     [kind |-> "not_json", ok |-> "absent", reason |-> "echo"],
     [kind |-> "array", ok |-> "absent", reason |-> "absent"]}
        \cup [kind : {"object"}, ok : OkValues, reason : ReasonValues]
Transports ==
    {[exc |-> "ConnectionError", status |-> 0, body |-> [kind |-> "none"]],
     [exc |-> "Timeout", status |-> 0, body |-> [kind |-> "none"]]}
        \cup [exc : {""}, status : HttpStatuses, body : RemoteBodies]

\* bool(v) of a JSON value
Truthy(v) == v \in {"true", "1", "text"}

\* the classes an exception raised inside the try block is an instance of
Bases(exc) ==
    IF exc \in {"ConnectionError", "Timeout", "JSONDecodeError"}
    THEN {exc, "RequestException", "Exception"}
    ELSE {exc, "Exception"}

\* except Exception as e
Caught_RequestsOnly(exc) == "RequestException" \in Bases(exc)

Caught(exc) == "Exception" \in Bases(exc)

\* the exception the try block of verify_remote raises, "" when it returns: from
\* requests.post, from r.json() on a body that is no JSON, from data.get on a body
\* that is no object
RemoteRaises(net) ==
    IF net.exc # "" THEN net.exc
    ELSE IF net.status # 200 THEN ""
    ELSE IF net.body.kind = "not_json" THEN "JSONDecodeError"
    ELSE IF net.body.kind # "object" THEN "AttributeError"
    ELSE ""

\* ISMXAuthyClient.verify_remote: the VerifyResult returned, or the exception raised.
\* reason is "verify_remote error" (the text of line 64), "HTTP" (the text of line 60;
\* "HTTP echo" when r.text holds the words "verify_remote error"), or the value of the
\* body's reason field ("" when it has none)
verify_remote_result(net) ==
    LET exc == RemoteRaises(net)
    IN  IF exc # ""
        THEN IF Caught(exc)
             THEN [raised |-> "", ok |-> FALSE, reason |-> "verify_remote error"]
             ELSE [raised |-> exc, ok |-> FALSE, reason |-> ""]
        ELSE IF net.status # 200
        THEN [raised |-> "", ok |-> FALSE,
              reason |-> IF net.body.reason = "echo" THEN "HTTP echo" ELSE "HTTP"]
        ELSE [raised |-> "", ok |-> Truthy(net.body.ok),
              reason |-> IF net.body.reason = "absent" THEN "" ELSE net.body.reason]

verify_remote(net) ==
    /\ answers = 0
    /\ answers' = 1
    /\ answer' = [op |-> "verify_remote", net |-> net, out |-> verify_remote_result(net)]
    /\ UNCHANGED <<clock, leaseVars, authyVars, passportVars, jwksVars, keyVars>>

\* ---------------------------------------------------- run_query_with_authy
\* what verify_local reads: whether ISMX_PUBKEY_B64 is set, whether the passport
\* text splits into signature and payload, and whether the signature, the scope,
\* the expiry and the metrics tag pass
LocalInputs ==
    [pubkey : BOOLEAN, form : {"ok", "garbled"}, sig : BOOLEAN, scope : BOOLEAN,
     fresh : BOOLEAN, tag : BOOLEAN]

\* ISMXAuthyClient.verify_local: VerifyResult.ok
verify_local(loc) ==
    /\ loc.pubkey
    /\ loc.form = "ok"
    /\ loc.sig
    /\ loc.scope
    /\ loc.fresh
    /\ loc.tag

\* "verify_remote error" in res.reason: "TypeError" when reason is no text
ReasonNamesRemoteError(reason) ==
    IF reason = "number" THEN "TypeError"
    ELSE IF reason \in {"verify_remote error", "HTTP echo", "echo"} THEN "yes"
    ELSE "no"

\* not res.ok and "verify_remote error" in res.reason
FallsBack(res) == IF res.ok THEN "no" ELSE ReasonNamesRemoteError(res.reason)

\* run_query_with_authy(sql, passport_b64): out is "rows" when fake_db_query ran,
\* else the exception raised
run_query_with_authy(net, loc) ==
    /\ answers = 0
    /\ answers' = 1
    /\ LET remote == verify_remote_result(net)
           falls == FallsBack(remote)
           ok == IF falls = "yes" THEN verify_local(loc) ELSE remote.ok
       IN  answer' = [op |-> "run_query", net |-> net, loc |-> loc, remote |-> remote,
                      usedLocal |-> (falls = "yes"),
                      out |-> IF falls = "TypeError" THEN "TypeError"
                              ELSE IF ~ok THEN "PermissionError"
                              ELSE "rows"]
    /\ UNCHANGED <<clock, leaseVars, authyVars, passportVars, jwksVars, keyVars>>

\* ---------------------------------------------------------- require_scopes
\* strings are sequences of characters; " " is the whitespace
Chars == {"a", "b", " "}
ScopeStrs == UNION {[1..n -> Chars] : n \in 0..MaxLen}
\* the scope names asked for
ScopeNames == {<<>>, <<"a">>, <<"b">>, <<"a", "b">>}
NeededLists == {<<>>} \cup {<<w>> : w \in ScopeNames} \cup (ScopeNames \X ScopeNames)
\* the claims: with or without a "scope" entry
ScopeClaims == [has : BOOLEAN, scope : ScopeStrs]

\* str.split(): the maximal runs of non-whitespace from position i on; word is the
\* run in progress
RECURSIVE split_from(_, _, _)
split_from(s, i, word) ==
    LET done == IF word = <<>> THEN {} ELSE {word}
    IN  IF i > Len(s) THEN done
        ELSE IF s[i] = " " THEN done \cup split_from(s, i + 1, <<>>)
        ELSE split_from(s, i + 1, Append(word, s[i]))

\* set(scope_str.split())
ScopeSet_Whole(scope_str) == {scope_str}

ScopeSet(scope_str) == split_from(scope_str, 1, <<>>)

\* require_scopes(claims, needed)
require_scopes_result(claims, needed) ==
    IF needed = <<>> THEN TRUE
    ELSE LET scope_str == IF claims.has /\ claims.scope # <<>> THEN claims.scope ELSE <<>>
             scopes == ScopeSet(scope_str)
         IN  \A k \in 1..Len(needed) : needed[k] \in scopes

require_scopes(claims, needed) ==
    /\ answers = 0
    /\ answers' = 1
    /\ answer' = [op |-> "require_scopes", claims |-> claims, needed |-> needed,
                  out |-> require_scopes_result(claims, needed)]
    /\ UNCHANGED <<clock, leaseVars, authyVars, passportVars, jwksVars, keyVars>>

CallsAtRest ==
    /\ answer = NoAnswer
    /\ answers = 0

\* ---------------------------------------------------------------- server app
\* the X-Correlation-ID header of a request; "" when the request has none
IncomingIds == {"", "c1", "c2"}
\* what the routed endpoint does: /health returns, /error-demo raises AppError, a
\* request that fails validation, a path without a route, an endpoint raising
\* any other exception
Routes == {"health", "error-demo", "invalid", "unknown", "crash"}
\* correlation_id_ctx of a task that has not set it; also a header that is not set
CtxDefault == [given |-> "", uuid |-> 0]
NoResponse == [status |-> 0, header |-> CtxDefault, body |-> "none", correlationId |-> CtxDefault]
\* str(uuid.uuid4()) of the n-th request
uuid4(n) == [given |-> "", uuid |-> n]

\* ErrorResponse(error=ErrorBody(..., correlationId=cid)) as a JSONResponse
ErrorEnvelope(status_code, cid) ==
    [status |-> status_code, header |-> CtxDefault, body |-> "ErrorResponse", correlationId |-> cid]

\* RequestLoggingMiddleware.dispatch up to call_next: the outermost middleware of
\* the stack reads the context variable for its log records
Receive(incoming, route) ==
    /\ answer.pc = "done"
    /\ answers < MaxCalls
    /\ answers' = answers + 1
    /\ answer' = [op |-> "request", pc |-> "correlation", incoming |-> incoming,
                  route |-> route, ctx |-> CtxDefault, logged |-> CtxDefault,
                  correlation_id |-> CtxDefault, exc |-> "", response |-> NoResponse]
    /\ UNCHANGED <<clock, leaseVars, authyVars, passportVars, jwksVars, keyVars>>

\* CorrelationIdMiddleware.dispatch up to call_next
CorrelationEnter ==
    /\ answer.op = "request" /\ answer.pc = "correlation"
    /\ LET correlation_id == IF answer.incoming # "" THEN [given |-> answer.incoming, uuid |-> 0]
                             ELSE uuid4(answers)
       IN  answer' = [answer EXCEPT !.pc = "route", !.correlation_id = correlation_id,
                                    !.ctx = correlation_id]
    /\ UNCHANGED <<answers, clock, leaseVars, authyVars, passportVars, jwksVars, keyVars>>

\* the router under ExceptionMiddleware: the endpoint, and the handlers registered
\* for AppError and RequestValidationError; any other exception passes through
RunRoute ==
    /\ answer.op = "request" /\ answer.pc = "route"
    /\ LET cid == answer.ctx
       IN  answer' =
             CASE answer.route = "health" ->
                    [answer EXCEPT !.pc = "correlation_exit",
                                   !.response = [NoResponse EXCEPT !.status = 200,
                                                                   !.body = "healthy"]]
               [] answer.route = "error-demo" ->
                    [answer EXCEPT !.pc = "correlation_exit",
                                   !.response = ErrorEnvelope(400, cid)]
               [] answer.route = "invalid" ->
                    [answer EXCEPT !.pc = "correlation_exit",
                                   !.response = ErrorEnvelope(422, cid)]
               [] answer.route = "unknown" ->
                    [answer EXCEPT !.pc = "correlation_exit",
                                   !.response = [NoResponse EXCEPT !.status = 404,
                                                                   !.body = "detail"]]
               [] OTHER ->
                    [answer EXCEPT !.pc = "correlation_exit", !.exc = "Exception"]
    /\ UNCHANGED <<answers, clock, leaseVars, authyVars, passportVars, jwksVars, keyVars>>

\* whether CorrelationIdMiddleware.dispatch gets a response back from call_next
HasResponse(exc) == exc = ""

\* CorrelationIdMiddleware.dispatch from the return of call_next: the header is
\* set on a response; the finally clause resets the context variable
CorrelationExit ==
    /\ answer.op = "request" /\ answer.pc = "correlation_exit"
    /\ answer' = [answer EXCEPT
                    !.pc = "logging_exit",
                    !.response = IF HasResponse(answer.exc)
                                 THEN [@ EXCEPT !.header = answer.correlation_id]
                                 ELSE @,
                    !.ctx = CtxDefault]
    /\ UNCHANGED <<answers, clock, leaseVars, authyVars, passportVars, jwksVars, keyVars>>

\* RequestLoggingMiddleware.dispatch from the return of call_next: request.end is
\* logged and the response returned, or request.error is logged and the exception
\* raised again
LoggingExit ==
    /\ answer.op = "request" /\ answer.pc = "logging_exit"
    /\ answer' = [answer EXCEPT !.pc = IF answer.exc = "" THEN "done" ELSE "server_error"]
    /\ UNCHANGED <<answers, clock, leaseVars, authyVars, passportVars, jwksVars, keyVars>>

\* generic_error_handler, called by the server error middleware that wraps the
\* whole stack
generic_error_handler ==
    /\ answer.op = "request" /\ answer.pc = "server_error"
    /\ LET cid == answer.ctx
       IN  answer' = [answer EXCEPT !.pc = "done", !.response = ErrorEnvelope(500, cid)]
    /\ UNCHANGED <<answers, clock, leaseVars, authyVars, passportVars, jwksVars, keyVars>>

\* ------------------------------------------------------ lease specifications
EmptyMap == [x \in {} |-> 0]

InitLeaseStore ==
    /\ clock = 0
    /\ usedLeases = {}
    /\ activeLeases = EmptyMap
    /\ leaseLock = NoThread
    /\ storageLock = NoThread
    /\ last = Returned(IdleThread)
    /\ calls = 0
    /\ registered = EmptyMap
    /\ consumedOk = EmptyMap
    /\ revokedRemoved = {}
    /\ revokeReturned = {}
    /\ AuthyAtRest
    /\ PassportAtRest
    /\ CallsAtRest

\* threads racing on one lease, issued for one scope and asked for under either;
\* callers hand in the dictionaries they were issued
InitLease ==
    /\ InitLeaseStore
    /\ thr = [t \in Threads |-> IdleThread]
    /\ wallet = {}
    /\ world = [ids |-> {"L1"}, scopes |-> {"tool:x"}, forging |-> FALSE]
    /\ JwksAtRest
    /\ KeysAtRest

\* one caller: the other threads never run
InitLeaseSeq ==
    /\ InitLeaseStore
    /\ thr = [t \in Threads |-> IF t = "t1" THEN IdleThread ELSE OffThread]
    /\ wallet = {}
    /\ world = [ids |-> {"L1"}, scopes |-> Scopes, forging |-> FALSE]
    /\ JwksAtRest
    /\ KeysAtRest

\* one caller, who hands in any dictionary: lease_valid takes the lease from its caller
InitLeaseForge ==
    /\ InitLeaseStore
    /\ thr = [t \in Threads |-> IF t = "t1" THEN IdleThread ELSE OffThread]
    /\ wallet = {}
    /\ world = [ids |-> {"L1"}, scopes |-> Scopes, forging |-> TRUE]
    /\ JwksAtRest
    /\ KeysAtRest

\* the dictionaries a lease_valid call can be handed
Offered == IF world.forging THEN CarriedLeases ELSE wallet \cup {NoLease}

NextLease ==
    \/ Tick
    \/ \E t \in Threads :
        \/ \E scope \in world.scopes, ttl_s \in LeaseTtls : IssueBegin(t, scope, ttl_s)
        \/ IssueLock(t)
        \/ IssueStore(t)
        \/ \E lease \in Offered, needed_scope \in Scopes, consume \in BOOLEAN :
              \/ ValidNoId(t, lease, needed_scope, consume)
              \/ ValidBegin(t, lease, needed_scope, consume)
        \/ ValidCheck1(t)
        \/ ValidTimeScope(t)
        \/ ValidLock2(t)
        \/ ValidCheck2(t)
        \/ ValidLock3(t)
        \/ ValidMark(t)
        \/ \E lease_id \in world.ids : RevokeBegin(t, lease_id)
        \/ RevokeDelete(t)
        \/ RevokeLock2(t)
        \/ RevokeAdd(t)
        \/ CleanupBegin(t)
        \/ CleanupLock(t)
        \/ CleanupSweep(t)

SpecLease == InitLease /\ [][NextLease]_vars

SpecLeaseSeq == InitLeaseSeq /\ [][NextLease]_vars

SpecLeaseForge == InitLeaseForge /\ [][NextLease]_vars

\* --------------------------------------------------- authy specification
LeaseAtRest ==
    /\ InitLeaseStore
    /\ thr = [t \in Threads |-> OffThread]
    /\ wallet = {}
    /\ world = [ids |-> {}, scopes |-> {}, forging |-> FALSE]

InitAuthy == LeaseAtRest /\ JwksAtRest /\ KeysAtRest

NextAuthy ==
    \/ Tick
    \/ \E req \in IssueTtls, bearer \in Bearers : issue(req, bearer)
    \/ \E token \in PresentedTokens : verify(token)
    \/ \E token \in PresentedTokens \cup {NoToken}, req_jti \in Jtis \cup {NoJti} :
          revoke(token, req_jti)

SpecAuthy == InitAuthy /\ [][NextAuthy]_vars

\* ------------------------------------------------ passport specification
InitPassport == LeaseAtRest /\ JwksAtRest /\ KeysAtRest

NextPassport ==
    \/ Tick
    \/ \E agent_id \in Agents, session_id \in Sessions, redacted_metrics \in Metrics,
          ttl_s \in PassportTtls :
          issue_passport_sign(agent_id, session_id, redacted_metrics, ttl_s)
    \/ issue_passport_return
    \/ \E field \in TamperFields \cup {"none"}, agent_id \in Agents,
          session_id \in Sessions, redacted_metrics \in Metrics :
          verify_passport(field, agent_id, session_id, redacted_metrics)

SpecPassport == InitPassport /\ [][NextPassport]_vars

\* the holder of an issued passport alters the fields outside the signature, or
\* builds a passport signed with a key of its own
NextPassportForge ==
    \/ Tick
    \/ \E agent_id \in Agents, session_id \in Sessions, redacted_metrics \in Metrics,
          ttl_s \in PassportTtls :
          issue_passport_sign(agent_id, session_id, redacted_metrics, ttl_s)
    \/ issue_passport_return
    \/ \E field \in WindowFields \cup {"forged"}, agent_id \in Agents,
          session_id \in Sessions, redacted_metrics \in Metrics :
          verify_passport(field, agent_id, session_id, redacted_metrics)

SpecPassportForge == InitPassport /\ [][NextPassportForge]_vars

\* --------------------------------------------------- jwks specifications
JwksStep(t) ==
    \/ JwksBegin(t)
    \/ JwksReadTs(t)
    \/ JwksFastReturn(t)
    \/ JwksLockRecheck(t)
    \/ \E response \in Upstream : JwksFetch(t, response)
    \/ JwksStoreTs(t)
    \/ ClearKeys(t)
    \/ ClearTs(t)

\* threads calling _jwks and clear_jwks_cache at once
InitJwks ==
    /\ LeaseAtRest
    /\ KeysAtRest
    /\ jwksCache = NoCache
    /\ jwksLock = NoThread
    /\ jthr = [t \in Threads |-> JIdle]
    /\ jlast = NoJlast
    /\ jprev = NoPrev
    /\ jcalls = 0

NextJwks ==
    \/ Tick
    \/ \E t \in Threads : JwksStep(t)

SpecJwks == InitJwks /\ [][NextJwks]_vars

\* one caller of verify_jwt, _jwks and clear_jwks_cache
InitJwt ==
    /\ LeaseAtRest
    /\ KeysAtRest
    /\ jwksCache = NoCache
    /\ jwksLock = NoThread
    /\ jthr = [t \in Threads |-> IF t = "t1" THEN JIdle ELSE JOff]
    /\ jlast = NoJlast
    /\ jprev = NoPrev
    /\ jcalls = 0

NextJwt ==
    \/ Tick
    \/ \E t \in Threads :
        \/ JwksStep(t)
        \/ \E token \in Jwts : VerifyJwtBegin(t, token)

SpecJwt == InitJwt /\ [][NextJwt]_vars

\* ---------------------------------------------- key loading specification
InitKeys ==
    /\ LeaseAtRest
    /\ JwksAtRest
    /\ keyEnv \in KeyEnvs
    /\ keyFile \in KeyFiles
    /\ keyResult = NoKeyResult
    /\ keyCalls = 0

NextKeys ==
    \/ Tick
    \/ ensure_keypair
    \/ load_keys
    \/ \E env \in KeyEnvs, file \in KeyFiles : Deploy(env, file)

SpecKeys == InitKeys /\ [][NextKeys]_vars

\* ----------------------------------- stateless operations and the server app
InitCalls == LeaseAtRest /\ JwksAtRest /\ KeysAtRest

\* one call of verify_remote against every outcome of the network
NextRemote == \E net \in Transports : verify_remote(net)

SpecRemote == InitCalls /\ [][NextRemote]_vars

\* one call of require_scopes over the claims and the scope lists
NextScopes == \E claims \in ScopeClaims, needed \in NeededLists : require_scopes(claims, needed)

SpecScopes == InitCalls /\ [][NextScopes]_vars

\* one call of quorum_3_of_5 over the approvers lists
NextPolicy == \E approvers \in ApproverLists : quorum_call(approvers)

SpecPolicy == InitCalls /\ [][NextPolicy]_vars

\* one receipt made at some minute and verified
NextAudit ==
    \/ Tick
    \/ \E action_id \in AuditActions, inputs \in AuditInputs, lease \in AuditLeases,
          result_hash \in AuditHashes, ts_bucket \in AuditBuckets,
          how \in ReceiptTamperings :
          receipt_call(action_id, inputs, lease, result_hash, ts_bucket, how)

SpecAudit == InitCalls /\ [][NextAudit]_vars

\* one request to one of the two endpoints of the integration app
NextDb ==
    \E endpoint \in {"/db/query", "/db/sensitive_query"}, auth \in Authorizations,
       query \in Queries, approvers \in ApproverSamples :
       db_request(endpoint, auth, query, approvers)

SpecDb == InitCalls /\ [][NextDb]_vars

\* one call of run_query_with_authy over the outcomes of the network and of the
\* local verification
NextBridge == \E net \in Transports, loc \in LocalInputs : run_query_with_authy(net, loc)

SpecBridge == InitCalls /\ [][NextBridge]_vars

\* one call of verify_compact over the tokens and both verify keys
NextCompact == \E token \in CompactTokens, vk \in CompactKeys : verify_compact_call(token, vk)

SpecCompact == InitCalls /\ [][NextCompact]_vars

\* the server app serving one request after another
NextServer ==
    \/ \E incoming \in IncomingIds, route \in Routes : Receive(incoming, route)
    \/ CorrelationEnter
    \/ RunRoute
    \/ CorrelationExit
    \/ LoggingExit
    \/ generic_error_handler

SpecServer == InitCalls /\ [][NextServer]_vars


\* ------------------------------------------------------------ lease claims
\* C1: whatever the interleaving of the lock acquisitions and releases of concurrent
\* lease_valid(lease, scope, consume=True) calls, at most one of them returns True
\* for a given lease_id.
C1_AtMostOneConsume == \A id \in DOMAIN consumedOk : consumedOk[id] <= 1

\* two consuming calls raced: one returned True, and the call that returned last had
\* begun before that and lost at the double check
C1_Witness ==
    /\ last.op = "valid"
    /\ last.consume
    /\ last.ret = "used2"
    /\ ~last.afterConsumed
    /\ last.lease_id \in DOMAIN consumedOk
    /\ last.lease_id \notin revokedRemoved

\* C2: once a consuming lease_valid call has returned True for a lease_id, every
\* lease_valid call on that lease_id that begins afterwards returns False, with
\* consume=True or consume=False, whatever ran in between.
C2_ConsumedStaysInvalid ==
    (last.op = "valid" /\ last.afterConsumed) => ~last.result

\* a non-consuming call on a consumed lease was rejected by the first check
C2_Witness ==
    /\ last.op = "valid"
    /\ last.afterConsumed
    /\ ~last.consume
    /\ ~last.wrongScope
    /\ last.ret = "used"

\* C3: no partial revocation is observable: in every reachable state a lease that
\* revoke_lease has removed from the active store is in the used-set, and no
\* lease_valid call that begins after the removal returns True.
C3_RevokeImpliesUsed ==
    /\ revokedRemoved \subseteq usedLeases
    /\ (last.op = "valid" /\ last.afterRemoval) => ~last.result

\* C6: lease_valid returns True only for a lease of the active store: a dictionary
\* whose lease_id issue_capability_lease never registered, or whose scope or exp
\* differs from the registered values, is rejected.
C6_OnlyRegisteredLeases ==
    (last.op = "valid" /\ last.result) => last.registeredCopy

\* C7: a lease_valid call whose needed_scope differs from the lease's scope returns
\* False and changes neither the used-set nor the stored used flag, and the call that
\* immediately follows it with the right scope on the unused lease returns True
\* unless the lease has expired.
C7_WrongScopeDoesNotConsume ==
    /\ []((last.op = "valid" /\ last.wrongScope) => ~last.result)
    /\ []((last.op = "valid" /\ last.retry /\ ~last.wrongScope /\ ~last.result)
             => last.ret = "expired")
    /\ [][\A t \in Threads :
            (thr[t].op = "valid" /\ thr[t].wrongScope)
               => (usedLeases' = usedLeases /\ activeLeases' = activeLeases)]_vars

\* the retry with the right scope, consuming, returned True
C7_Witness ==
    /\ last.op = "valid"
    /\ last.retry
    /\ ~last.wrongScope
    /\ last.consume
    /\ last.result

\* ------------------------------------------------------------ authy claims
\* C4: POST /verify never returns valid=true for a token whose jti is in the
\* revocation set: once a /revoke of a jti has completed, every later /verify of a
\* token carrying that jti returns valid=false, and no operation removes a jti
\* from the revocation set.
C4_RevokedNeverValid ==
    /\ []((resp.op = "verify" /\ resp.valid) => resp.jti \notin DOMAIN revocations)
    /\ []((resp.op = "verify" /\ resp.revokedBefore) => ~resp.valid)
    /\ [](revokeDone \subseteq DOMAIN revocations)
    /\ [][DOMAIN revocations \subseteq DOMAIN revocations']_vars

\* an issued, unexpired token was verified after the revoke of its jti and refused
\* as revoked
C4_Witness ==
    /\ resp.op = "verify"
    /\ resp.issued
    /\ resp.revokedBefore
    /\ resp.now < resp.exp
    /\ resp.reason = "revoked"

\* C5 as stated: every /verify of an issued token that starts after a /revoke of its
\* jti has completed returns valid=false with reason "revoked", and a /verify
\* completed before the revoke is not answered as revoked.
C5_RevokedReason ==
    /\ (resp.op = "verify" /\ resp.issued /\ resp.revokedBefore)
          => (~resp.valid /\ resp.reason = "revoked")
    /\ (resp.op = "verify" /\ resp.issued /\ ~resp.revokedBefore)
          => resp.reason # "revoked"

\* C5 amended: every /verify of an issued token that starts after a /revoke of its
\* jti has completed returns valid=false, with reason "expired" when the token's
\* exp has passed (exp < now) and reason "revoked" otherwise; a /verify completed
\* before the revoke is valid unless the token has expired.
C5_RevokedOrExpired ==
    /\ (resp.op = "verify" /\ resp.issued /\ resp.revokedBefore)
          => /\ ~resp.valid
             /\ resp.reason = IF resp.exp < resp.now THEN "expired" ELSE "revoked"
    /\ (resp.op = "verify" /\ resp.issued /\ ~resp.revokedBefore)
          => /\ resp.valid = ~(resp.exp < resp.now)
             /\ ~resp.valid => resp.reason = "expired"

\* an issued token was verified after the revoke of its jti and after its exp: the
\* answer is "expired"
C5_Witness ==
    /\ resp.op = "verify"
    /\ resp.issued
    /\ resp.revokedBefore
    /\ resp.exp < resp.now
    /\ ~resp.valid
    /\ resp.reason = "expired"

\* --------------------------------------------------------- passport claims
\* C8: for a passport issued at clock time t with ttl_s and metrics m,
\* verify_passport(p, p.agent_id, p.session_id, m) returns True at every time in
\* [t, t + ttl_s_original) and False at every time now >= t + ttl_s_original.
C8_FreshUntilExp ==
    (/\ vcall.op = "verify"
     /\ vcall.tamper = "none"
     /\ vcall.agent_id = issuedFor.agent_id
     /\ vcall.session_id = issuedFor.session_id
     /\ vcall.metrics = issuedFor.metrics)
        => ((vcall.result = "True") <=> (vcall.now < issuedFor.t + passport.ttl_s_original))

\* C9: a passport issued for (a, s, m) is bound to that triple: verify_passport(p,
\* a', s', m') returns False whenever a' # a, or s' # s, or m' # m with the
\* commitments of m' and m distinct.
C9_BoundToTriple ==
    (/\ vcall.op = "verify"
     /\ vcall.tamper = "none"
     /\ \/ vcall.agent_id # issuedFor.agent_id
        \/ vcall.session_id # issuedFor.session_id
        \/ hmac_commit(vcall.metrics) # hmac_commit(issuedFor.metrics))
        => vcall.result = "False"

\* an unexpired passport was verified with its agent and session and with other
\* metrics, and refused
C9_Witness ==
    /\ vcall.op = "verify"
    /\ vcall.tamper = "none"
    /\ vcall.now < passport.exp
    /\ vcall.agent_id = issuedFor.agent_id
    /\ vcall.session_id = issuedFor.session_id
    /\ hmac_commit(vcall.metrics) # hmac_commit(issuedFor.metrics)
    /\ vcall.result = "False"

\* C10: changing the signature or a signed field of an issued passport (agent_id,
\* session_id, commitment, ttl_s_original, nonce) makes verify_passport return
\* False for every expected agent_id, session_id and metrics, and no exception
\* leaves verify_passport.
C10_TamperRejected ==
    (vcall.op = "verify" /\ vcall.tamper \in TamperFields) => vcall.result = "False"

\* C11: every passport returned by issue_passport satisfies
\* exp = issued_at + ttl_s_original, whatever the clock value is at each point
\* during the call.
C11_ExpIsIssuedAtPlusTtl ==
    passport # NoPassport => passport.exp = passport.issued_at + passport.ttl_s_original

\* C12: POST /issue signs, stores and returns a token only for a request
\* authenticated by a verified external JWT and authorized by the scope check: no
\* token is issued for a request that carries no valid external JWT.
C12_IssueAuthenticated ==
    /\ (resp.op = "issue" /\ resp.status = 200) => resp.bearer = "valid"
    /\ (resp.op = "issue" /\ resp.bearer # "valid") => resp.jti \notin DOMAIN passportsDb

\* C13: for a validly signed token (one verify_compact accepts), POST /verify returns
\* valid=false with reason "expired" at every time now >= exp, and never valid=true
\* at such a time.
C13_ExpiredAtExp ==
    (/\ resp.op = "verify"
     /\ resp.reason # "verification failed"
     /\ resp.now >= resp.exp)
        => (~resp.valid /\ resp.reason = "expired")

\* ------------------------------------------------------------- jwks claims
\* C14: when several _jwks calls find the cache empty or stale at once and the fetch
\* succeeds, one fetch is made: a call that waited for the lock while another call
\* stored a fetched key set (and no clear_jwks_cache came in between) returns from the
\* re-check and never reaches httpx.get.
C14_OneFetchPerRefresh ==
    \A t \in Threads : jthr[t].pc = "jw_fetch" => ~jthr[t].storedSince

C16_JwksUnavailableIdentified ==
    /\ (jlast.upstream = "http_error" /\ jlast.before.keys = NoDoc)
          => (jlast.raised = "HTTPError" /\ jlast.cacheSame)
    /\ (/\ jlast.op = "verify_jwt"
        /\ jlast.cause = "jwks_unavailable"
        /\ jprev.cause \notin {"", "jwks_unavailable"})
          => jlast.error # jprev.error

\* C17: when the fetched document has no "keys" list _jwks raises, and keys and ts of
\* the cache are what they were when the call took the lock.
C17_MalformedLeavesCache ==
    jlast.upstream = "no_keys"
        => (jlast.path = "raise" /\ jlast.raised = "ValueError" /\ jlast.cacheSame)

C17_Witness ==
    /\ jlast.upstream = "no_keys"
    /\ jlast.raised = "ValueError"
    /\ jlast.before.keys # NoDoc
    /\ jwksCache = jlast.before

\* C18: a call is at httpx.get only while the cache is empty or at least ttl old, and
\* a _jwks call begun while the cache was non-empty and younger than ttl (and not
\* cleared meanwhile) returns the cached key set from the unlocked path, without
\* taking the lock, fetching or writing the cache.
C18_FreshCacheNoFetch ==
    /\ \A t \in Threads :
          /\ jthr[t].pc = "jw_fetch"
                => (jwksCache.keys = NoDoc \/ time_time - jwksCache.ts >= JwksTtl)
          /\ (jthr[t].freshAtStart /\ ~jthr[t].cleared)
                => jthr[t].pc \in {"jw_ts", "jw_fast"}
    /\ (jlast.freshAtStart /\ ~jlast.cleared)
          => (jlast.path = "fast" /\ jlast.value # NoDoc /\ jlast.raised = "")

C18_Witness ==
    /\ jlast.op = "jwks"
    /\ jlast.freshAtStart
    /\ ~jlast.cleared
    /\ jlast.path = "fast"
    /\ jlast.value = jwksCache.keys
    /\ \E t \in Threads : jthr[t].pc = "jw_fetch" /\ jwksCache.keys # NoDoc

\* the causes of rejection verify_jwt is to tell apart
RejectionCauses ==
    {"kid_missing", "alg_unsupported", "kid_unknown", "expired", "bad_signature",
     "audience", "issuer"}

\* C19: two verify_jwt calls that reject their tokens for different causes (missing
\* kid, unsupported alg, unknown kid, expired, bad signature, audience, issuer) raise
\* different messages.
C19_DistinctFailureKinds ==
    (/\ jlast.op = "verify_jwt"
     /\ jlast.cause \in RejectionCauses
     /\ jprev.cause \in RejectionCauses
     /\ jlast.cause # jprev.cause)
        => jlast.error # jprev.error

\* ------------------------------------------------------ key loading claims
\* C20: key loading that finds no key configured (no file at KEY_PATH for
\* ensure_keypair, a key variable unset for _load_keys) outside development mode
\* fails and neither generates nor writes a key; a key is generated in development
\* mode only.
C20_NoKeyOutsideDevelopment ==
    /\ (keyResult.op # "none" /\ ~keyResult.configured /\ keyResult.mode # "development")
          => (keyResult.outcome = "error" /\ ~keyResult.generated /\ ~keyResult.persisted)
    /\ keyResult.generated => keyResult.mode = "development"

\* ------------------------------------------------- lease claims, continued
\* C21: a lease issued with ttl_s = 0 is never valid: every lease_valid call on the
\* issued dictionary with its own scope returns False, consuming or not.
C21_ZeroTtlNeverValid ==
    (/\ last.op = "valid"
     /\ last.registeredCopy
     /\ ~last.wrongScope
     /\ registered[last.lease_id].exp = registered[last.lease_id].issued)
        => ~last.result

\* C22: a lease id revoke_lease has returned for is absent from the active store
\* and in the used-set, and every lease_valid call begun after that return is False.
C22_RevokedStaysInvalid ==
    /\ \A id \in revokeReturned : id \notin DOMAIN activeLeases /\ id \in usedLeases
    /\ (last.op = "valid" /\ last.afterRevoke) => ~last.result

\* a lease never consumed and not expired was revoked, and the non-consuming call
\* on it with the right scope was rejected by the first check
C22_Witness ==
    /\ last.op = "valid"
    /\ last.afterRevoke
    /\ ~last.afterConsumed
    /\ ~last.consume
    /\ last.registeredCopy
    /\ ~last.wrongScope
    /\ registered[last.lease_id].exp >= clock
    /\ last.ret = "used"

\* C23: revoke_lease returns True when it found the lease in the active store and
\* False when it did not.
C23_RevokeReportsFound ==
    last.op = "revoke" => last.result = last.found

\* C24: cleanup_expired_leases deletes the stored leases with exp < now and no other,
\* returns their number and leaves the used-set alone, and a call that follows
\* another at the same clock value returns 0.
C24_SweepExact ==
    /\ [][\A t \in Threads :
            (thr[t].pc = "cl_sweep" /\ thr'[t].pc # "cl_sweep")
               => /\ DOMAIN activeLeases' =
                        {id \in DOMAIN activeLeases : activeLeases[id].exp >= thr[t].now}
                  /\ \A id \in DOMAIN activeLeases' : activeLeases'[id] = activeLeases[id]
                  /\ last'.count = Cardinality(DOMAIN activeLeases \ DOMAIN activeLeases')
                  /\ usedLeases' = usedLeases]_vars
    /\ []((last.op = "cleanup" /\ last.resweep) => last.count = 0)

\* a sweep removed the expired lease and the sweep repeated at once found nothing
C24_Witness ==
    /\ last.op = "cleanup"
    /\ last.resweep
    /\ last.count = 0
    /\ DOMAIN registered # {}
    /\ DOMAIN activeLeases = {}
    /\ revokedRemoved = {}

\* ------------------------------------------------- authy claims, continued
\* C25: a jti revoked again is revoked as before: no step changes the row
\* (revoked_at, reason, by_user) of a jti that is_revoked holds for.
C25_RevokeIdempotent ==
    [][\A jti \in DOMAIN revocations :
          is_revoked(revocations', jti) /\ revocations'[jti] = revocations[jti]]_vars

\* C26: a /revoke with neither token nor jti, or with only a token the service key
\* did not sign, is answered 400 and leaves the revocations table as it was; a
\* /revoke with only a token that succeeds revokes the jti of that token's payload.
C26_RevokeNeedsJti ==
    /\ []((/\ resp.op = "revoke"
           /\ ~resp.withJti
           /\ (~resp.withToken \/ ~resp.genuine)) => resp.status = 400)
    /\ [][(resp'.op = "revoke" /\ resp'.status = 400) => revocations' = revocations]_vars
    /\ []((resp.op = "revoke" /\ resp.withToken /\ ~resp.withJti /\ resp.status = 200)
             => (resp.genuine /\ resp.jti = resp.carried /\ resp.jti \in DOMAIN revocations))

\* a forged token for an unrevoked jti was refused, and nothing is revoked
C26_Witness ==
    /\ resp.op = "revoke"
    /\ resp.withToken
    /\ ~resp.withJti
    /\ ~resp.genuine
    /\ resp.carried # NoJti
    /\ resp.status = 400
    /\ DOMAIN revocations = {}
    /\ DOMAIN passportsDb # {}

\* C29: /issue takes the request's ttl when it is positive and TTL_DEFAULT when it
\* is absent, zero or negative; the exp answered is iat + ttl, and it is the exp of
\* the signed payload and of the stored row.
C29_IssueTtl ==
    resp.op = "issue"
        => LET ttl == IF resp.req.given /\ resp.req.ttl > 0 THEN resp.req.ttl
                      ELSE TTL_DEFAULT
               row == passportsDb[resp.jti]
               payload == b64url_decode(row.sig.val.msg[2])
           IN  /\ resp.exp = resp.now + ttl
               /\ row.iat = resp.now
               /\ row.exp = resp.exp
               /\ payload.iat = resp.now
               /\ payload.exp = resp.exp

\* a request with a negative ttl was given TTL_DEFAULT
C29_Witness ==
    /\ resp.op = "issue"
    /\ resp.req.given
    /\ resp.req.ttl < 0
    /\ resp.exp = resp.now + TTL_DEFAULT
    /\ passportsDb[resp.jti].exp = resp.exp

\* ------------------------------------------------------ verify_remote claims
\* C27: verify_remote never raises; a transport failure, a timeout, a status other
\* than 200 and a body that cannot be decoded each give ok = false; ok = true only
\* for a 200 response whose body has a truthy ok field
C27_VerifyRemoteTotal ==
    answer.op = "verify_remote" =>
        /\ answer.out.raised = ""
        /\ answer.out.ok <=>
              /\ answer.net.exc = ""
              /\ answer.net.status = 200
              /\ answer.net.body.kind = "object"
              /\ answer.net.body.ok \in {"true", "1", "text"}

\* a 200 response whose body is JSON but no object: the failure of data.get is
\* turned into ok = false
C27_Witness ==
    /\ answer.op = "verify_remote"
    /\ answer.net.exc = ""
    /\ answer.net.status = 200
    /\ answer.net.body.kind = "array"
    /\ answer.out.raised = ""
    /\ ~answer.out.ok

\* ----------------------------------------------------- require_scopes claims
\* the words of a string: its non-empty pieces without whitespace that whitespace
\* or an end of the string bounds on both sides
IsWord(w, s) ==
    /\ w # <<>>
    /\ \E i \in 1..Len(s) :
          /\ i + Len(w) - 1 <= Len(s)
          /\ \A k \in 1..Len(w) : s[i + k - 1] = w[k] /\ w[k] # " "
          /\ i = 1 \/ s[i - 1] = " "
          /\ i + Len(w) - 1 = Len(s) \/ s[i + Len(w)] = " "

\* C28: require_scopes is True exactly when every element of needed is a word of
\* the scope claim: True for an empty needed, False for a non-empty needed when
\* the scope claim is missing or empty
C28_RequireScopes ==
    answer.op = "require_scopes" =>
        LET scope == IF answer.claims.has THEN answer.claims.scope ELSE <<>>
        IN  answer.out <=>
              \A k \in 1..Len(answer.needed) : IsWord(answer.needed[k], scope)

\* both scopes asked for are found in a claim that names them in the other order
C28_Witness ==
    /\ answer.op = "require_scopes"
    /\ answer.claims.has
    /\ answer.claims.scope = <<"b", " ", "a">>
    /\ answer.needed = <<(<<"a">>), (<<"b">>)>>
    /\ answer.out

\* ---------------------------------------------------------- server app claims
\* C30: every response carries the correlation ID of its request as the
\* X-Correlation-ID header, and every error envelope carries it as correlationId,
\* the 500 of an unhandled exception included
C30_CorrelationIdEverywhere ==
    (answer.op = "request" /\ answer.pc = "done") =>
        /\ answer.response.header = answer.correlation_id
        /\ answer.response.body = "ErrorResponse"
              => answer.response.correlationId = answer.correlation_id

\* ------------------------------------------------------ lease claims, the rest
\* C40: a lease_valid call with consume=False changes neither the used-set nor
\* the stored leases; called on the registered copy of an unused lease with the
\* right scope while it is unexpired it returns True; and the consuming call that
\* follows a non-consuming call that returned True for the same lease returns
\* True as well, as long as the lease is unexpired
C40_PeekLeavesLease ==
    /\ [][\A t \in Threads :
            (/\ thr'[t] # thr[t]
             /\ \/ thr[t].op = "valid" /\ ~thr[t].consume
                \/ thr'[t].op = "valid" /\ ~thr'[t].consume)
            => usedLeases' = usedLeases /\ activeLeases' = activeLeases]_vars
    /\ [][(/\ last' # last
           /\ last'.op = "valid"
           /\ ~last'.consume
           /\ last'.unusedAtStart
           /\ last'.registeredCopy
           /\ ~last'.wrongScope
           /\ clock <= registered[last'.lease_id].exp)
          => last'.result]_vars
    /\ [][(/\ last' # last
           /\ last.op = "valid" /\ ~last.consume /\ last.result
           /\ last'.op = "valid" /\ last'.consume
           /\ last'.lease_id = last.lease_id
           /\ last'.registeredCopy
           /\ ~last'.wrongScope
           /\ clock <= registered[last'.lease_id].exp)
          => last'.result]_vars

\* a consuming call about to return True for the lease that the non-consuming
\* call before it returned True for
C40_Witness ==
    \E t \in Threads :
        /\ thr[t].op = "valid" /\ thr[t].consume /\ thr[t].pc = "lv_mark"
        /\ last.op = "valid" /\ ~last.consume /\ last.result
        /\ last.lease_id = thr[t].lease.lease_id
        /\ last.lease_id \in usedLeases

\* ------------------------------------------------------ verify_compact claims
\* the third segment decodes to a signature by the key of vk over the first two
\* segments as written
ValidSignature(token, vk) ==
    /\ token.s.enc # "not_base64"
    /\ token.s.val.key = vk
    /\ token.s.val.msg = <<token.h, token.p>>

C36_JwksNeverNone ==
    (jlast.op \in {"jwks", "verify_jwt"} /\ jlast.path # "header" /\ jlast.raised = "")
        => jlast.value # NoDoc

\* the tokens verify_jwt is to reject before it looks keys up
RejectedEarly(token) ==
    \/ token.form = "empty"
    \/ token.form = "jwt" /\ (token.kid = "" \/ token.alg # "RS256")

\* C38: verify_jwt rejects an empty token, a token without kid and a token whose alg
\* is not RS256 before it calls _jwks: no call of _jwks is ever in progress for such
\* a token, and the step that rejects it fetches nothing, takes no lock and leaves
\* the cache as it is
C38_RejectBeforeLookup ==
    /\ [](\A t \in Threads :
            (jthr[t].op = "verify_jwt" /\ jthr[t].pc \notin {"idle", "off"})
                => ~RejectedEarly(jthr[t].token))
    /\ []((jlast.op = "verify_jwt" /\ RejectedEarly(jlast.token))
            => (jlast.error # "" /\ jlast.path = "header" /\ jlast.upstream = "none"))
    /\ [][(jlast' # jlast /\ jlast'.op = "verify_jwt" /\ RejectedEarly(jlast'.token))
            => (jwksCache' = jwksCache /\ jwksLock' = jwksLock /\ jthr' = jthr)]_vars

\* a token with alg HS256 rejected while the cache holds a key set
C38_Witness ==
    /\ jlast.op = "verify_jwt"
    /\ jlast.token.alg = "HS256"
    /\ jlast.path = "header"
    /\ jlast.error # ""
    /\ jwksCache.keys # NoDoc

\* --------------------------------------------------- passport claims, the rest
\* C34: a passport whose exp or issued_at was altered after it was issued never
\* verifies at a time later than its issue time plus ttl_s_original
C34_WindowFixedAtIssue ==
    (/\ vcall.op = "verify"
     /\ vcall.tamper \in WindowFields
     /\ vcall.now > issuedFor.t + passport.ttl_s_original)
        => vcall.result # "True"

\* C35: verify_passport returns True only for a passport this service signed for
\* the agent and session verified: a passport built by copying an issued one and
\* signing with another key, carried in vk_b64, does not verify
C35_OnlyServiceSigned ==
    (vcall.op = "verify" /\ vcall.result = "True")
        => /\ vcall.presented.sig_b64.val.key = PassportKey
           /\ vcall.agent_id = issuedFor.agent_id
           /\ vcall.session_id = issuedFor.session_id

\* ----------------------------------------------- run_query_with_authy claims
\* the remote verifier answered and the answer was negative: a status other than
\* 200, or a 200 object body whose ok field is not truthy
RemoteSaidNo(net) ==
    /\ net.exc = ""
    /\ \/ net.status # 200
       \/ net.body.kind = "object" /\ net.body.ok \notin {"true", "1", "text"}

\* C37: the query runs only if remote verification returned ok, or the remote call
\* failed with a transport error and local verification returned ok; a negative
\* answer of a reachable verifier is never overridden by local verification; in
\* every other case PermissionError is raised
C37_LocalOnlyOnTransportError ==
    answer.op = "run_query" =>
        /\ answer.out = "rows" =>
              \/ answer.remote.ok
              \/ answer.net.exc \in {"ConnectionError", "Timeout"} /\ verify_local(answer.loc)
        /\ RemoteSaidNo(answer.net) => (~answer.usedLocal /\ answer.out # "rows")
        /\ answer.out # "rows" => answer.out = "PermissionError"

\* -------------------------------------------------------- ismx.policy claims
\* C31: quorum_3_of_5 is True exactly when the list holds three names that are
\* non-empty and differ from one another
C31_QuorumThreeDistinct ==
    answer.op = "quorum_3_of_5" =>
        LET a == answer.approvers
        IN  answer.out <=>
              \E i, j, k \in 1..Len(a) :
                  /\ a[i] # "" /\ a[j] # "" /\ a[k] # ""
                  /\ a[i] # a[j] /\ a[i] # a[k] /\ a[j] # a[k]

\* four entries, one of them a duplicate: three distinct names, accepted
C31_Witness ==
    /\ answer.op = "quorum_3_of_5"
    /\ answer.approvers = <<"alice", "alice", "bob", "carol">>
    /\ answer.out

\* --------------------------------------------------------- ismx.audit claims
\* C32: verify_receipt is True for a receipt as audit_receipt returned it and
\* False once its payload, digest or mac differs from what was returned
C32_ReceiptTamperEvident ==
    answer.op = "verify_receipt" =>
        /\ answer.presented = answer.made => answer.out
        /\ answer.presented # answer.made => ~answer.out

\* a receipt whose payload was changed and whose digest was recomputed to match
\* is refused
C32_Witness ==
    /\ answer.op = "verify_receipt"
    /\ answer.how = "payload_digest"
    /\ answer.presented.payload # answer.made.payload
    /\ answer.presented.digest = [sha256 |-> answer.presented.payload]
    /\ ~answer.out

\* -------------------------------------------------- mcp_integration claims
\* C33: a query is_sensitive_query classifies as sensitive is executed only by a
\* request whose approvers quorum_3_of_5 accepted; /db/query executes none
C33_SensitiveNeedsQuorum ==
    (answer.op = "db" /\ answer.executed /\ is_sensitive_query(answer.query)) =>
        /\ answer.quorum
        /\ answer.endpoint # "/db/query"

====
